---- MODULE Spec2Model ----
(***************************************************************************)
(* A model of the request handlers of the risk-analysis services:         *)
(*   Fresh Start/audio_emotion_api.py  POST /analyze                       *)
(*   main.py + audio_analyzer.py       POST /analyze, POST /analyze-batch  *)
(*   backend/main.py                   POST /analyze/audio, /analyze/text, *)
(*                                     POST /analyze/combined              *)
(*   text-based-analyzer/main.py       POST /analyze                       *)
(*                                                                         *)
(* Numbers.  Model scores (confidences) are integers in thousandths, the   *)
(* grid on which round(x, 3) is exact.  Risk scores are integers in        *)
(* hundredths of a point.  Durations are milliseconds, sizes are bytes.    *)
(* A filename is the sequence of its dot-separated parts, << >> for a      *)
(* missing (None or empty) filename.                                       *)
(***************************************************************************)
EXTENDS Integers, Sequences, FiniteSets, TLC

VARIABLES server, phase, req, resp, log, temp_dir, background

vars == <<server, phase, req, resp, log, temp_dir, background>>

None == [kind |-> "none"]

(***************************************************************************)
(* Shared helpers                                                          *)
(***************************************************************************)

\* str.lower() on the filename parts and emotion labels the model uses.
Lower(s) ==
    CASE s = "WAV" -> "wav"
      [] s = "Mp3" -> "mp3"
      [] s = "Sadness" -> "sadness"
      [] s = "HAPPY" -> "happy"
      [] s = "Angry" -> "angry"
      [] s = "MP4" -> "mp4"
      [] s = "Mov" -> "mov"
      [] OTHER -> s

Min(a, b) == IF a <= b THEN a ELSE b

Max(a, b) == IF a >= b THEN a ELSE b

\* round(x, 1) of a value given in hundredths, result in hundredths: to the
\* nearest tenth, a tie to the even tenth.
RoundTenths(h) ==
    LET r == h % 10
        down == h - r
    IN  IF r < 5 THEN down
        ELSE IF r > 5 THEN down + 10
        ELSE IF (down \div 10) % 2 = 0 THEN down ELSE down + 10

\* The response of a handler that raises HTTPException(status_code).
HttpError(code, lg) == [status |-> code, body |-> None, log |-> lg]

\* Every element of the sequence s.
Range(s) == {s[i] : i \in 1..Len(s)}

\* The index of the first occurrence of x in s, 0 when there is none.
IndexOf(s, x) ==
    IF x \in Range(s) THEN CHOOSE i \in 1..Len(s) : s[i] = x /\ \A j \in 1..(i-1) : s[j] # x
    ELSE 0

(***************************************************************************)
(* Uploads and the environment of one request                              *)
(***************************************************************************)

Filenames ==
    { << >>, <<"clip">>, <<"wav">>, <<"clip", "WAV">>, <<"clip", "mp3">>, <<"clip", "txt">> }

\* Fresh Start/audio_emotion_api.py:40; main.py:60
MAX_FILE_SIZE_MB == 50

MAX_FILE_SIZE_BYTES == MAX_FILE_SIZE_MB * 1024 * 1024

FileSizes == { 1024, MAX_FILE_SIZE_BYTES, MAX_FILE_SIZE_BYTES + 1 }

\* Fresh Start/audio_emotion_api.py:41, audio_analyzer.py:30, backend/audio_analyzer.py:25
MAX_DURATION == 30

\* Durations of the uploaded audio, in milliseconds.
Durations == { 500, 1000, MAX_DURATION * 1000, MAX_DURATION * 1000 + 1 }

Uploads == [filename : Filenames, size : FileSizes, duration : Durations]

\* Labels a classifier may return: the ones the risk tables name, the ones the
\* model card and the energy fallback use ("angry", "sad"), and cased variants.
Labels ==
    { "anger", "disgust", "fear", "sadness", "frustration", "anxiety", "stress",
      "neutral", "surprise", "happy", "joy", "calm", "excited",
      "angry", "sad", "Sadness", "HAPPY" }

\* Labels and scores of the classifier results the endpoint model draws from.
EndpointLabels == { "sadness", "HAPPY", "angry", "neutral" }

EndpointScores == { 2, 502, 900, 1000 }

ClassifierItems == [label : EndpointLabels, score : EndpointScores]

\* Items of the two-item results.
PairItems == [label : {"sadness", "neutral"}, score : {502, 900}]

\* The list a classifier returns: no item, one item, or two items with
\* different labels.
ClassifierResults ==
    { << >> } \cup { <<i>> : i \in ClassifierItems }
      \cup { p \in PairItems \X PairItems : p[1].label # p[2].label }

\* Mean signal energy of the loaded samples, in 1/10000.
Energies == { 5, 300, 700, 2000 }

\* What the classifier call does for one request: sf.write of the samples
\* fails, the call raises, or it returns a list of items.  energy is the
\* mean energy of the samples, read by the energy fallback only.
NoCall == [kind |-> "not_called", items |-> << >>, energy |-> 0]

ModelOutcomes ==
    [kind : {"encode_fail", "raise"}, items : { << >> }, energy : Energies]
      \cup [kind : {"result"}, items : { << >> }, energy : Energies]
      \cup [kind : {"result"}, items : ClassifierResults \ { << >> }, energy : {5}]

\* max(emotion_scores, key=emotion_scores.get): the first item of the
\* highest score.
ArgMax(items) ==
    CHOOSE i \in 1..Len(items) :
        /\ \A j \in 1..Len(items) : items[j].score <= items[i].score
        /\ \A j \in 1..(i-1) : items[j].score < items[i].score

(***************************************************************************)
(* Fresh Start/audio_emotion_api.py                                        *)
(***************************************************************************)

FS_ALLOWED_EXTENSIONS == {"wav", "mp3", "m4a", "flac", "ogg"}

\* file.filename.split('.')[-1].lower() if '.' in file.filename else ""
FileExtension(filename) ==
    IF Len(filename) > 1 THEN Lower(filename[Len(filename)]) ELSE ""

\* validate_file without its size check.
validate_file_no_size(file) ==
    IF file.filename = << >>
    THEN [valid |-> FALSE, error |-> "No filename provided", extension |-> "", size |-> 0]
    ELSE IF FileExtension(file.filename) \notin FS_ALLOWED_EXTENSIONS
    THEN [valid |-> FALSE, error |-> "File type not allowed", extension |-> "", size |-> 0]
    ELSE [valid |-> TRUE, error |-> "", extension |-> FileExtension(file.filename),
          size |-> file.size]

\* validate_file: filename, extension, size, in this order.
validate_file(file) ==
    IF file.filename = << >>
    THEN [valid |-> FALSE, error |-> "No filename provided", extension |-> "", size |-> 0]
    ELSE IF FileExtension(file.filename) \notin FS_ALLOWED_EXTENSIONS
    THEN [valid |-> FALSE, error |-> "File type not allowed", extension |-> "", size |-> 0]
    ELSE IF file.size > MAX_FILE_SIZE_BYTES
    THEN [valid |-> FALSE, error |-> "File too large", extension |-> "", size |-> 0]
    ELSE [valid |-> TRUE, error |-> "", extension |-> FileExtension(file.filename),
          size |-> file.size]

\* AudioProcessor.validate_audio: sf.info, then the duration window.
validate_audio(duration, infoOk) ==
    IF ~infoOk THEN [valid |-> FALSE, error |-> "Validation failed"]
    ELSE IF duration > MAX_DURATION * 1000 THEN [valid |-> FALSE, error |-> "Audio too long"]
    ELSE IF duration < 1000 THEN [valid |-> FALSE, error |-> "Audio too short"]
    ELSE [valid |-> TRUE, error |-> ""]

\* AudioEmotionAnalyzer._get_fallback_analysis: energy thresholds 0.001, 0.1, 0.05.
FS_get_fallback_analysis(energy) ==
    LET pick == IF energy < 10 THEN <<"neutral", 700>>
                ELSE IF energy > 1000 THEN <<"angry", 600>>
                ELSE IF energy < 500 THEN <<"sad", 700>>
                ELSE <<"neutral", 500>>
    IN  [success |-> TRUE, primary_emotion |-> pick[1], confidence |-> pick[2],
         method |-> "fallback"]

\* AudioEmotionAnalyzer.analyze_emotion.  mode is "api" (a token: Inference
\* API client) or "pipeline" (no token: local pipeline).  Every exception
\* (sf.write, the classifier call, max() of an empty dict) ends in the
\* energy fallback.
FS_analyze_emotion(mode, outcome) ==
    IF outcome.kind = "result" /\ outcome.items # << >>
    THEN LET i == ArgMax(outcome.items)
         IN  [success |-> TRUE, primary_emotion |-> outcome.items[i].label,
              confidence |-> outcome.items[i].score,
              method |-> IF mode = "api" THEN "inference_api" ELSE "local_pipeline"]
    ELSE FS_get_fallback_analysis(outcome.energy)

\* map_to_risk_level answering the level that its emotion table assigns.
map_to_risk_level_table(emotion, confidence) ==
    LET emotion_lower == Lower(emotion)
        base_risk ==
            IF emotion_lower \in {"anger", "disgust", "fear", "sadness"} THEN 70
            ELSE IF emotion_lower \in {"frustration", "anxiety", "stress"} THEN 50
            ELSE IF emotion_lower \in {"neutral", "surprise"} THEN 30
            ELSE IF emotion_lower \in {"happy", "joy", "calm", "excited"} THEN 10
            ELSE 40
        adjusted_risk == Min(10000, Max(0, base_risk * 100 + (1000 - confidence) * 2))
    IN  [risk_level |-> IF base_risk = 70 THEN "HIGH"
                        ELSE IF base_risk = 50 THEN "MEDIUM" ELSE "LOW",
         risk_score |-> RoundTenths(adjusted_risk)]

\* AudioEmotionAnalyzer.map_to_risk_level: base risk by emotion group, plus
\* (1 - confidence) * 20, clamped to [0, 100]; the level from the unrounded
\* value, the score rounded to one decimal.
map_to_risk_level(emotion, confidence) ==
    LET emotion_lower == Lower(emotion)
        base_risk ==
            IF emotion_lower \in {"anger", "disgust", "fear", "sadness"} THEN 70
            ELSE IF emotion_lower \in {"frustration", "anxiety", "stress"} THEN 50
            ELSE IF emotion_lower \in {"neutral", "surprise"} THEN 30
            ELSE IF emotion_lower \in {"happy", "joy", "calm", "excited"} THEN 10
            ELSE 40
        adjusted_risk == Min(10000, Max(0, base_risk * 100 + (1000 - confidence) * 2))
        risk_level ==
            IF adjusted_risk >= 8000 THEN "CRITICAL"
            ELSE IF adjusted_risk >= 6000 THEN "HIGH"
            ELSE IF adjusted_risk >= 4000 THEN "MEDIUM"
            ELSE "LOW"
    IN  [risk_level |-> risk_level, risk_score |-> RoundTenths(adjusted_risk)]

\* AudioEmotionAnalyzer._get_minimal_analysis
FS_get_minimal_analysis ==
    [risk_level |-> "LOW", risk_score |-> 2000, confidence |-> 500,
     primary_emotion |-> "neutral"]

\* What the libraries do for one request: file.read(), pydub's conversion,
\* sf.info, librosa.load, and the classifier.
IoEnvs == [readOk : BOOLEAN, convertOk : BOOLEAN, infoOk : BOOLEAN, loadOk : BOOLEAN]

WithModel(io, m) ==
    [readOk |-> io.readOk, convertOk |-> io.convertOk, infoOk |-> io.infoOk,
     loadOk |-> io.loadOk, model |-> m]

\* AudioEmotionAnalyzer.analyze_audio_file: every failure returns
\* success=False with the minimal analysis as fallback_analysis.
FS_analyze_audio_file(mode, duration, file_extension, env) ==
    LET validation == validate_audio(duration, env.infoOk)
        failed(err, lg) ==
            [success |-> FALSE, error |-> err, fallback_analysis |-> FS_get_minimal_analysis,
             log |-> lg]
        emotion_result == FS_analyze_emotion(mode, env.model)
        classifierLog ==
            IF env.model.kind = "encode_fail" THEN <<"fallback">>
            ELSE IF emotion_result.method = "fallback" THEN <<"classifier", "fallback">>
            ELSE <<"classifier">>
        risk == map_to_risk_level(emotion_result.primary_emotion, emotion_result.confidence)
    IN  IF ~validation.valid THEN failed(validation.error, <<"validate_audio">>)
        ELSE IF ~env.loadOk THEN failed("Audio loading failed", <<"validate_audio", "load_audio">>)
        ELSE [success |-> TRUE,
              risk_level |-> risk.risk_level,
              risk_score |-> risk.risk_score,
              confidence |-> emotion_result.confidence,
              primary_emotion |-> emotion_result.primary_emotion,
              audio_duration |-> Min(duration, MAX_DURATION * 1000),
              format |-> file_extension,
              model_used |-> emotion_result.method,
              log |-> <<"validate_audio", "load_audio", "analyze_emotion">> \o classifierLog]

RiskLevels == {"LOW", "MEDIUM", "HIGH", "CRITICAL"}

\* The Field constraints of AudioAnalysisResponse: constructing the response
\* raises when they do not hold.
AudioAnalysisResponseOk(body) ==
    /\ body.risk_level \in RiskLevels
    /\ 0 <= body.risk_score /\ body.risk_score <= 10000
    /\ 0 <= body.confidence /\ body.confidence <= 1000

\* States of the module-level analyzer: None (the constructor raised),
\* constructed but not initialized, or initialized in one of its modes.
FS_AnalyzerStates == {"none", "uninit", "api", "pipeline"}

\* POST /analyze of Fresh Start/audio_emotion_api.py.
FS_analyze_audio(analyzer, file, env) ==
    LET validation == validate_file(file)
        converted == validation.extension # "wav" /\ env.convertOk
        file_extension == IF converted THEN "wav" ELSE validation.extension
        convertLog == IF validation.extension # "wav" THEN <<"convert">> ELSE << >>
        analysis_result == FS_analyze_audio_file(analyzer, file.duration, file_extension, env)
        lg == <<"check_analyzer", "validate_file", "read">> \o convertLog
                 \o <<"analyze_audio_file">> \o analysis_result.log
        fallback == analysis_result.fallback_analysis
        body ==
            IF ~analysis_result.success
            THEN [success |-> TRUE, risk_level |-> fallback.risk_level,
                  risk_score |-> fallback.risk_score, confidence |-> fallback.confidence,
                  primary_emotion |-> fallback.primary_emotion, audio_duration |-> 0,
                  format |-> file_extension, model_used |-> "Fallback Analysis"]
            ELSE [success |-> TRUE, risk_level |-> analysis_result.risk_level,
                  risk_score |-> analysis_result.risk_score,
                  confidence |-> analysis_result.confidence,
                  primary_emotion |-> analysis_result.primary_emotion,
                  audio_duration |-> analysis_result.audio_duration,
                  format |-> analysis_result.format,
                  model_used |-> analysis_result.model_used]
    IN  IF analyzer \in {"none", "uninit"} THEN HttpError(503, <<"check_analyzer">>)
        ELSE IF ~validation.valid THEN HttpError(400, <<"check_analyzer", "validate_file">>)
        ELSE IF ~env.readOk THEN HttpError(500, <<"check_analyzer", "validate_file", "read">>)
        ELSE IF ~AudioAnalysisResponseOk(body) THEN HttpError(500, lg)
        ELSE [status |-> 200, body |-> body, log |-> lg]

(***************************************************************************)
(* main.py, audio_analyzer.py, utils/ (the root service)                   *)
(***************************************************************************)

RT_ALLOWED_EXTENSIONS == {"wav", "mp3", "m4a", "flac", "ogg"}

\* validate_audio_file of main.py: filename, extension, size, in this order.
validate_audio_file(file) ==
    LET file_extension ==
            IF Len(file.filename) > 1 THEN Lower(file.filename[Len(file.filename)]) ELSE ""
    IN  IF file.filename = << >>
        THEN [valid |-> FALSE, error |-> "No filename provided", extension |-> "", size |-> 0]
        ELSE IF file_extension \notin RT_ALLOWED_EXTENSIONS
        THEN [valid |-> FALSE, error |-> "File type not allowed", extension |-> "", size |-> 0]
        ELSE IF file.size > MAX_FILE_SIZE_BYTES
        THEN [valid |-> FALSE, error |-> "File too large", extension |-> "", size |-> 0]
        ELSE [valid |-> TRUE, error |-> "", extension |-> file_extension, size |-> file.size]

\* AudioProcessor.validate_audio_duration: False when librosa.get_duration
\* raises, else duration <= max_duration.
validate_audio_duration(duration, durationOk, max_duration) ==
    durationOk /\ duration <= max_duration * 1000

\* Zero-crossing rate of the samples, in 1/100.
Zcrs == { 2, 8, 20 }

\* The energy fallback without its "success": True.
RT_get_fallback_analysis_no_success(energy, zcr) ==
    [success |-> FALSE, primary_emotion |-> "neutral", primary_score |-> 500,
     method |-> "fallback"]

\* AudioEmotionAnalyzer._get_fallback_analysis of audio_analyzer.py:
\* energy thresholds 0.001, 0.1, 0.05 and zero-crossing thresholds 0.1, 0.05.
RT_get_fallback_analysis(energy, zcr) ==
    LET pick == IF energy < 10 THEN <<"neutral", 800>>
                ELSE IF energy > 1000 /\ zcr > 10 THEN <<"angry", 600>>
                ELSE IF energy < 500 /\ zcr < 5 THEN <<"sad", 700>>
                ELSE <<"neutral", 500>>
    IN  [success |-> TRUE, primary_emotion |-> pick[1], primary_score |-> pick[2],
         method |-> "fallback"]

\* One classifier call: it raises or returns a list.
FailedCalls == { [kind |-> "raise", items |-> << >>], [kind |-> "result", items |-> << >>] }

GoodCalls == [kind : {"result"}, items : ClassifierResults \ { << >> }]

CallNotMade == [kind |-> "not_called", items |-> << >>]

\* What sf.write, the Inference API call, the pipeline call and the samples
\* do for one request of the root service.
RT_ModelOutcomes ==
    [encodeOk : {FALSE}, api : {CallNotMade}, pipeline : {CallNotMade}, energy : {5}, zcr : {2}]
      \cup [encodeOk : {TRUE}, api : GoodCalls, pipeline : {CallNotMade}, energy : {5}, zcr : {2}]
      \cup [encodeOk : {TRUE}, api : FailedCalls, pipeline : GoodCalls, energy : {5}, zcr : {2}]
      \cup [encodeOk : {TRUE}, api : FailedCalls, pipeline : FailedCalls, energy : Energies, zcr : Zcrs]

RT_NoCall ==
    [encodeOk |-> TRUE, api |-> CallNotMade, pipeline |-> CallNotMade, energy |-> 0, zcr |-> 0]

\* AudioEmotionAnalyzer.analyze_audio_emotion.  The client exists in every
\* initialized mode; the pipeline exists in mode "api_pipeline" only (the
\* model test at start-up failed and the pipeline loaded).  An exception of
\* the encoding is the error result; one of a classifier call moves on to the
\* next source.
analyze_audio_emotion(mode, outcome) ==
    LET apiGood == outcome.api.kind = "result" /\ outcome.api.items # << >>
        pipeGood ==
            mode = "api_pipeline" /\ outcome.pipeline.kind = "result"
              /\ outcome.pipeline.items # << >>
        from(items, method) ==
            [success |-> TRUE, primary_emotion |-> items[ArgMax(items)].label,
             primary_score |-> items[ArgMax(items)].score, method |-> method]
    IN  IF ~outcome.encodeOk
        THEN [success |-> FALSE, primary_emotion |-> "neutral", primary_score |-> 1000,
              method |-> "error_fallback"]
        ELSE IF apiGood THEN from(outcome.api.items, "inference_api")
        ELSE IF pipeGood THEN from(outcome.pipeline.items, "transformers_pipeline")
        ELSE RT_get_fallback_analysis(outcome.energy, outcome.zcr)

\* map_emotion_to_risk with the thresholds compared by > instead of >=.
map_emotion_to_risk_strict(emotion, emotion_score) ==
    LET emotion_lower == Lower(emotion)
        base_risk ==
            IF emotion_lower \in {"anger", "disgust", "fear", "sadness"} THEN 70
            ELSE IF emotion_lower \in {"frustration", "anxiety", "stress"} THEN 50
            ELSE IF emotion_lower \in {"neutral", "surprise"} THEN 30
            ELSE IF emotion_lower \in {"happy", "joy", "calm", "excited"} THEN 10
            ELSE 40
        adjusted_risk == Min(10000, Max(0, base_risk * 100 + (1000 - emotion_score) * 2))
        risk_level ==
            IF adjusted_risk > 8000 THEN "CRITICAL"
            ELSE IF adjusted_risk > 6000 THEN "HIGH"
            ELSE IF adjusted_risk > 4000 THEN "MEDIUM"
            ELSE "LOW"
    IN  [risk_level |-> risk_level, risk_score |-> RoundTenths(adjusted_risk)]

\* AudioEmotionAnalyzer.map_emotion_to_risk of audio_analyzer.py.
map_emotion_to_risk(emotion, emotion_score) ==
    LET emotion_lower == Lower(emotion)
        base_risk ==
            IF emotion_lower \in {"anger", "disgust", "fear", "sadness"} THEN 70
            ELSE IF emotion_lower \in {"frustration", "anxiety", "stress"} THEN 50
            ELSE IF emotion_lower \in {"neutral", "surprise"} THEN 30
            ELSE IF emotion_lower \in {"happy", "joy", "calm", "excited"} THEN 10
            ELSE 40
        adjusted_risk == Min(10000, Max(0, base_risk * 100 + (1000 - emotion_score) * 2))
        risk_level ==
            IF adjusted_risk >= 8000 THEN "CRITICAL"
            ELSE IF adjusted_risk >= 6000 THEN "HIGH"
            ELSE IF adjusted_risk >= 4000 THEN "MEDIUM"
            ELSE "LOW"
    IN  [risk_level |-> risk_level, risk_score |-> RoundTenths(adjusted_risk)]

\* transcribe_audio returns no transcription; detect_risk_keywords of a
\* missing text is ([], "LOW").
RT_transcription_risk == "LOW"

\* round(min(0.95, primary_score * 0.8 + 0.2), 2), in thousandths.
RT_confidence(primary_score) ==
    LET c == Min(9500, primary_score * 8 + 2000)
        r == c % 100
    IN  (IF r < 50 THEN c - r ELSE c - r + 100) \div 10

\* AudioEmotionAnalyzer.analyze_audio_file of audio_analyzer.py: every
\* exception returns success=False.
RT_analyze_audio_file(mode, duration, audio_format, env) ==
    LET failed(err, lg) == [success |-> FALSE, error |-> err, log |-> lg]
        emotion_result == analyze_audio_emotion(mode, env.model)
        mapped == map_emotion_to_risk(emotion_result.primary_emotion, emotion_result.primary_score)
        raised == RT_transcription_risk \in {"HIGH", "CRITICAL"}
                    /\ mapped.risk_level \in {"LOW", "MEDIUM"}
        steps == <<"load_audio", "analyze_emotion">>
    IN  IF ~env.loadOk THEN failed("Failed to load audio", <<"load_audio">>)
        ELSE IF ~emotion_result.success THEN failed("Emotion analysis failed", steps)
        ELSE IF ~env.featuresOk THEN failed("feature extraction", steps \o <<"extract_features">>)
        ELSE [success |-> TRUE,
              risk_level |-> IF raised THEN "HIGH" ELSE mapped.risk_level,
              risk_score |-> IF raised THEN Min(10000, mapped.risk_score + 2000)
                             ELSE mapped.risk_score,
              confidence |-> RT_confidence(emotion_result.primary_score),
              primary_emotion |-> emotion_result.primary_emotion,
              audio_duration |-> Min(duration, MAX_DURATION * 1000),
              format |-> audio_format,
              model_used |-> emotion_result.method,
              log |-> steps \o <<"extract_features">>]

\* States of the root service's analyzer.
RT_AnalyzerStates == {"none", "uninit", "api", "api_pipeline", "api_nopipeline"}

RT_IoEnvs ==
    [readOk : BOOLEAN, saveOk : BOOLEAN, convertOk : BOOLEAN, durationOk : BOOLEAN,
     loadOk : BOOLEAN, featuresOk : BOOLEAN]

RT_WithModel(io, m) ==
    [readOk |-> io.readOk, saveOk |-> io.saveOk, convertOk |-> io.convertOk,
     durationOk |-> io.durationOk, loadOk |-> io.loadOk, featuresOk |-> io.featuresOk,
     model |-> m]

\* POST /analyze of main.py.
RT_analyze_audio(analyzer, file, env) ==
    LET validation == validate_audio_file(file)
        converted == validation.extension # "wav" /\ env.convertOk
        file_extension == IF converted THEN "wav" ELSE validation.extension
        convertLog == IF validation.extension # "wav" THEN <<"convert">> ELSE << >>
        upTo(n) == SubSeq(<<"check_analyzer", "validate_file", "read", "save_temp_file",
                            "schedule_cleanup">>, 1, n)
        durLog == upTo(5) \o convertLog \o <<"validate_audio_duration">>
        analysis_result == RT_analyze_audio_file(analyzer, file.duration, file_extension, env)
        lg == durLog \o <<"analyze_audio_file">> \o analysis_result.log
        body ==
            [success |-> TRUE, risk_level |-> analysis_result.risk_level,
             risk_score |-> analysis_result.risk_score,
             confidence |-> analysis_result.confidence,
             primary_emotion |-> analysis_result.primary_emotion,
             audio_duration |-> analysis_result.audio_duration,
             format |-> analysis_result.format,
             model_used |-> analysis_result.model_used]
    IN  IF analyzer \in {"none", "uninit"} THEN HttpError(503, upTo(1))
        ELSE IF ~validation.valid THEN HttpError(400, upTo(2))
        ELSE IF ~env.readOk THEN HttpError(500, upTo(3))
        ELSE IF ~env.saveOk THEN HttpError(500, upTo(4))
        ELSE IF ~validate_audio_duration(file.duration, env.durationOk, MAX_DURATION)
        THEN HttpError(400, durLog)
        ELSE IF ~analysis_result.success THEN HttpError(500, lg)
        ELSE IF ~AudioAnalysisResponseOk(body) THEN HttpError(500, lg)
        ELSE [status |-> 200, body |-> body, log |-> lg]

\* The loop pass that drops a file whose read raises instead of recording it.
BatchStep_drop_read_error(analyzer, files, i, acc) ==
    LET file == files[i].file
        env == files[i].env
        validation == validate_audio_file(file)
        analysis_result == RT_analyze_audio_file(analyzer, file.duration, "wav", env)
    IN  IF ~validation.valid
        THEN [results |-> acc.results,
              errors |-> Append(acc.errors, [index |-> i, error |-> validation.error])]
        ELSE IF ~env.readOk THEN acc
        ELSE IF analysis_result.success
        THEN [results |-> Append(acc.results,
                                 [index |-> i, risk_level |-> analysis_result.risk_level,
                                  risk_score |-> analysis_result.risk_score]),
              errors |-> acc.errors]
        ELSE [results |-> acc.results,
              errors |-> Append(acc.errors, [index |-> i, error |-> analysis_result.error])]

\* One pass of the loop of analyze_batch_audio over file i: the file goes to
\* errors when its validation fails, when reading it raises, or when the
\* analysis does not succeed, and to results otherwise.  An entry names its
\* file by "filename"; the model names it by its position i in the batch.
BatchStep(analyzer, files, i, acc) ==
    LET file == files[i].file
        env == files[i].env
        validation == validate_audio_file(file)
        converted == validation.extension # "wav" /\ env.convertOk
        file_extension == IF converted THEN "wav" ELSE validation.extension
        analysis_result == RT_analyze_audio_file(analyzer, file.duration, file_extension, env)
        error(msg) ==
            [results |-> acc.results,
             errors |-> Append(acc.errors, [index |-> i, error |-> msg])]
    IN  IF ~validation.valid THEN error(validation.error)
        ELSE IF ~env.readOk THEN error("Failed to process uploaded file")
        ELSE IF analysis_result.success
        THEN [results |-> Append(acc.results,
                                 [index |-> i, risk_level |-> analysis_result.risk_level,
                                  risk_score |-> analysis_result.risk_score]),
              errors |-> acc.errors]
        ELSE error(analysis_result.error)

RECURSIVE BatchLoop(_, _, _, _)
\* for file in files: ...
BatchLoop(analyzer, files, i, acc) ==
    IF i > Len(files) THEN acc
    ELSE BatchLoop(analyzer, files, i + 1, BatchStep(analyzer, files, i, acc))

\* POST /analyze-batch of main.py.
analyze_batch_audio(analyzer, files) ==
    LET done == BatchLoop(analyzer, files, 1, [results |-> << >>, errors |-> << >>])
    IN  IF analyzer \in {"none", "uninit"} THEN HttpError(503, <<"check_analyzer">>)
        ELSE IF Len(files) > 5 THEN HttpError(400, <<"check_analyzer", "check_batch_size">>)
        ELSE [status |-> 200,
              body |-> [total_files |-> Len(files), successful |-> Len(done.results),
                        failed |-> Len(done.errors), results |-> done.results,
                        errors |-> done.errors],
              log |-> <<"check_analyzer", "check_batch_size", "loop">>]

(***************************************************************************)
(* backend/audio_analyzer.py and POST /analyze/audio of backend/main.py    *)
(***************************************************************************)

\* x / d rounded to the nearest integer, a tie to the even one (d > 0, x >= 0).
RoundDiv(x, d) ==
    LET q == x \div d
        r == x % d
    IN  IF 2 * r < d THEN q
        ELSE IF 2 * r > d THEN q + 1
        ELSE IF q % 2 = 0 THEN q ELSE q + 1

\* The emotion table of _fallback_emotion_analysis before it is normalised,
\* in 1/100: energy > 0.01 raises angry and fearful, else calm and sad;
\* a spectral centroid above 2000 raises happy and surprised, else sad.
BE_fallback_table(loud, bright) ==
    [neutral |-> 30,
     calm |-> 20 + (IF loud THEN 0 ELSE 20),
     happy |-> 10 + (IF bright THEN 15 ELSE 0),
     sad |-> 10 + (IF loud THEN 0 ELSE 10) + (IF bright THEN 0 ELSE 15),
     angry |-> 10 + (IF loud THEN 20 ELSE 0),
     fearful |-> 10 + (IF loud THEN 10 ELSE 0),
     disgust |-> 5,
     surprised |-> 5 + (IF bright THEN 10 ELSE 0)]

\* The dict's insertion order, which max() and the [:5] slice follow.
BE_fallback_order ==
    <<"neutral", "calm", "happy", "sad", "angry", "fearful", "disgust", "surprised">>

RECURSIVE SumScores(_)
\* The sum of the scores of a list of items.
SumScores(items) ==
    IF items = << >> THEN 0 ELSE items[1].score + SumScores(Tail(items))

\* AudioEmotionAnalyzer._fallback_emotion_analysis: the normalised table as
\* a list of items with scores in thousandths; the default result when
\* the feature extraction raises.
fallback_emotion_analysis(featuresOk, loud, bright) ==
    LET table == BE_fallback_table(loud, bright)
        total == SumScores([i \in 1..8 |-> [score |-> table[BE_fallback_order[i]]]])
        items == [i \in 1..8 |->
                    [label |-> BE_fallback_order[i],
                     score |-> RoundDiv(table[BE_fallback_order[i]] * 1000, total)]]
    IN  IF ~featuresOk
        THEN [primary_emotion |-> "neutral",
              emotion_scores |-> << [label |-> "neutral", score |-> 1000] >>,
              confidence |-> 500, method |-> "default"]
        ELSE [primary_emotion |-> items[ArgMax(items)].label, emotion_scores |-> items,
              confidence |-> items[ArgMax(items)].score, method |-> "fallback_analysis"]

\* What sf.write, the Inference API call and the samples do for one request
\* of the backend.
BE_ModelOutcomes ==
    [encodeOk : {FALSE}, api : {CallNotMade}, featuresOk : BOOLEAN, loud : BOOLEAN,
     bright : BOOLEAN]
      \cup [encodeOk : {TRUE}, api : GoodCalls, featuresOk : {TRUE}, loud : {FALSE},
             bright : {FALSE}]
      \cup [encodeOk : {TRUE}, api : FailedCalls, featuresOk : BOOLEAN, loud : BOOLEAN,
             bright : BOOLEAN]

BE_NoCall ==
    [encodeOk |-> TRUE, api |-> CallNotMade, featuresOk |-> TRUE, loud |-> FALSE,
     bright |-> FALSE]

\* The labels lower-cased, as the result parser stores them.
LowerItems(items) ==
    [i \in 1..Len(items) |-> [label |-> Lower(items[i].label), score |-> items[i].score]]

\* AudioEmotionAnalyzer.analyze_emotion of the backend.  mode "api" has a
\* token and a client; every other mode, and every exception, ends in the
\* feature fallback.
BE_analyze_emotion(mode, outcome) ==
    IF mode = "api" /\ outcome.encodeOk /\ outcome.api.kind = "result"
         /\ outcome.api.items # << >>
    THEN LET emotions == LowerItems(outcome.api.items)
         IN  [primary_emotion |-> emotions[ArgMax(emotions)].label,
              emotion_scores |-> emotions,
              confidence |-> emotions[ArgMax(emotions)].score,
              method |-> "hugging_face_api"]
    ELSE fallback_emotion_analysis(outcome.featuresOk, outcome.loud, outcome.bright)

BE_risk_weight(emotion) ==
    CASE emotion = "sad" -> 60
      [] emotion = "fearful" -> 70
      [] emotion = "angry" -> 50
      [] emotion = "disgust" -> 40
      [] emotion = "neutral" -> 25
      [] emotion = "calm" -> 15
      [] emotion = "happy" -> 10
      [] emotion = "surprised" -> 20
      [] OTHER -> 30

RECURSIVE WeightedSum(_)
\* sum of weight * score over the emotion scores, in 1/1000 of a point.
WeightedSum(items) ==
    IF items = << >> THEN 0
    ELSE BE_risk_weight(items[1].label) * items[1].score + WeightedSum(Tail(items))

\* AudioEmotionAnalyzer.calculate_risk_score: the level from the unrounded
\* weighted sum (thresholds 75, 55, 35); risk_score in 1/1000 of a point.
calculate_risk_score(emotion_scores) ==
    LET risk_score == WeightedSum(emotion_scores)
    IN  [risk_level |-> IF risk_score >= 75000 THEN "CRITICAL"
                        ELSE IF risk_score >= 55000 THEN "HIGH"
                        ELSE IF risk_score >= 35000 THEN "MEDIUM"
                        ELSE "LOW",
         risk_score |-> risk_score]

\* AudioEmotionAnalyzer.get_recommendations of the backend: the three base
\* recommendations of the level, one more by emotion, cut to three (the
\* texts without their alarm sign).
BE_get_recommendations(risk_level, primary_emotion) ==
    LET base == CASE risk_level = "LOW" ->
                       <<"Continue monitoring your emotional wellbeing",
                         "Practice relaxation techniques when needed",
                         "Maintain healthy sleep and exercise habits">>
                  [] risk_level = "HIGH" ->
                       <<"Seek professional mental health support soon",
                         "Create a safety plan with trusted contacts",
                         "Avoid isolation and stay connected with others">>
                  [] risk_level = "CRITICAL" ->
                       <<"Contact a crisis helpline immediately",
                         "Seek emergency mental health services",
                         "Do not stay alone - reach out to someone now">>
                  [] OTHER ->
                       <<"Consider speaking with a counselor or therapist",
                         "Practice stress management techniques regularly",
                         "Reach out to supportive friends or family">>
        recommendations ==
            IF primary_emotion \in {"sad", "fearful"}
            THEN Append(base, "Engage in activities that uplift your mood")
            ELSE IF primary_emotion = "angry"
            THEN Append(base, "Practice anger management techniques")
            ELSE base
    IN  SubSeq(recommendations, 1, Min(3, Len(recommendations)))

\* AudioProcessor.validate_audio of backend/audio_analyzer.py.
BE_validate_audio(duration, infoOk) ==
    IF ~infoOk THEN [valid |-> FALSE, error |-> "Validation failed"]
    ELSE IF duration > MAX_DURATION * 1000 THEN [valid |-> FALSE, error |-> "Audio too long"]
    ELSE IF duration < 1000 THEN [valid |-> FALSE, error |-> "Audio too short"]
    ELSE [valid |-> TRUE, error |-> ""]

BE_IoEnvs == [readOk : BOOLEAN, convertOk : BOOLEAN, infoOk : BOOLEAN, loadOk : BOOLEAN]

\* AudioEmotionAnalyzer.analyze_audio_file of the backend: the result, or
\* raised |-> TRUE when it raises.  risk_score is round(risk_score, 2) in
\* hundredths.
BE_analyze_audio_file(mode, duration, file_format, env) ==
    LET validation == BE_validate_audio(duration, env.infoOk)
        convertLog == IF file_format # "wav" THEN <<"convert">> ELSE << >>
        emotion_result == BE_analyze_emotion(mode, env.model)
        risk == calculate_risk_score(emotion_result.emotion_scores)
        steps == <<"validate_audio">> \o convertLog \o <<"load_audio">>
    IN  IF ~validation.valid THEN [raised |-> TRUE, log |-> <<"validate_audio">>]
        ELSE IF file_format # "wav" /\ ~env.convertOk
        THEN [raised |-> TRUE, log |-> <<"validate_audio">> \o convertLog]
        ELSE IF ~env.loadOk THEN [raised |-> TRUE, log |-> steps]
        ELSE [raised |-> FALSE,
              success |-> TRUE,
              risk_level |-> risk.risk_level,
              risk_score |-> RoundDiv(risk.risk_score, 10),
              confidence |-> emotion_result.confidence,
              primary_emotion |-> emotion_result.primary_emotion,
              recommendations |->
                  BE_get_recommendations(risk.risk_level, emotion_result.primary_emotion),
              format |-> file_format,
              model_used |-> emotion_result.method,
              log |-> steps \o <<"analyze_emotion">>]

\* States of the backend's audio_analyzer: None, constructed without being
\* initialized (the client's constructor raised), with a token, without one.
BE_AnalyzerStates == {"none", "uninit", "api", "fallback"}

\* POST /analyze/audio of backend/main.py: the extension is the last
\* dot-separated part of the filename; there is no size check.
BE_analyze_audio(analyzer, file, env) ==
    LET file_ext == Lower(file.filename[Len(file.filename)])
        result == BE_analyze_audio_file(analyzer, file.duration, file_ext, env)
        lg == <<"check_analyzer", "validate_file", "read", "analyze_audio_file">> \o result.log
    IN  IF analyzer = "none" THEN HttpError(503, <<"check_analyzer">>)
        ELSE IF file.filename = << >> THEN HttpError(400, <<"check_analyzer", "validate_file">>)
        ELSE IF file_ext \notin {"wav", "mp3", "m4a", "flac", "ogg"}
        THEN HttpError(400, <<"check_analyzer", "validate_file">>)
        ELSE IF ~env.readOk THEN HttpError(500, <<"check_analyzer", "validate_file", "read">>)
        ELSE IF result.raised THEN HttpError(500, lg)
        ELSE [status |-> 200,
              body |-> [success |-> TRUE, risk_level |-> result.risk_level,
                        risk_score |-> result.risk_score, confidence |-> result.confidence,
                        primary_emotion |-> result.primary_emotion,
                        recommendations |-> result.recommendations,
                        format |-> result.format, model_used |-> result.model_used],
              log |-> lg]

(***************************************************************************)
(* The state machine: a server answers one request at a time.              *)
(***************************************************************************)

Servers ==
    [svc : {"fresh"}, analyzer : FS_AnalyzerStates]
      \cup [svc : {"root"}, analyzer : RT_AnalyzerStates]
      \cup [svc : {"backend"}, analyzer : BE_AnalyzerStates]

InitAudio ==
    /\ server \in Servers
    /\ phase = "idle"
    /\ req = None
    /\ resp = None
    /\ log = << >>
    /\ temp_dir = {}
    /\ background = << >>

Answer(request, r) ==
    /\ phase' = "answered"
    /\ req' = request
    /\ resp' = [status |-> r.status, body |-> r.body]
    /\ log' = r.log
    /\ UNCHANGED <<server, temp_dir, background>>

\* A server of service svc is idle and takes the next request.
Idle(svc) == phase = "idle" /\ server.svc = svc

\* The classifier's outcome is drawn for the requests that reach
\* analyze_emotion; for the others it is NoCall.
FS_Outcomes(analyzer, file, io) ==
    IF "analyze_emotion" \in Range(FS_analyze_audio(analyzer, file, WithModel(io, NoCall)).log)
    THEN ModelOutcomes ELSE {NoCall}

FreshAnalyze ==
    /\ Idle("fresh")
    /\ \E file \in Uploads, io \in IoEnvs :
          \E m \in FS_Outcomes(server.analyzer, file, io) :
             Answer([file |-> file, env |-> WithModel(io, m)],
                    FS_analyze_audio(server.analyzer, file, WithModel(io, m)))

RT_Outcomes(analyzer, file, io) ==
    IF "analyze_emotion" \in Range(RT_analyze_audio(analyzer, file, RT_WithModel(io, RT_NoCall)).log)
    THEN RT_ModelOutcomes ELSE {RT_NoCall}

RootAnalyze ==
    /\ Idle("root")
    /\ \E file \in Uploads, io \in RT_IoEnvs :
          \E m \in RT_Outcomes(server.analyzer, file, io) :
             Answer([file |-> file, env |-> RT_WithModel(io, m)],
                    RT_analyze_audio(server.analyzer, file, RT_WithModel(io, m)))

BE_Outcomes(analyzer, file, io) ==
    IF "analyze_emotion" \in Range(BE_analyze_audio(analyzer, file, WithModel(io, BE_NoCall)).log)
    THEN BE_ModelOutcomes ELSE {BE_NoCall}

BackendAnalyzeAudio ==
    /\ Idle("backend")
    /\ \E file \in Uploads, io \in BE_IoEnvs :
          \E m \in BE_Outcomes(server.analyzer, file, io) :
             Answer([file |-> file, env |-> WithModel(io, m)],
                    BE_analyze_audio(server.analyzer, file, WithModel(io, m)))

\* The response is sent; the server waits for the next request.
Finish ==
    /\ phase = "answered"
    /\ phase' = "idle"
    /\ req' = None
    /\ resp' = None
    /\ log' = << >>
    /\ UNCHANGED <<server, temp_dir, background>>

NextAudio == FreshAnalyze \/ RootAnalyze \/ BackendAnalyzeAudio \/ Finish

SpecAudio == InitAudio /\ [][NextAudio]_vars

(***************************************************************************)
(* Claims about the audio endpoints (SpecAudio)                            *)
(***************************************************************************)

Answered(svc) == phase = "answered" /\ server.svc = svc

AudioServices == {"fresh", "root", "backend"}

\* The upload of the answered request fails the endpoint's upload validation:
\* no filename, an extension outside the allowed list, or (Fresh Start and
\* root, which check it) a size above the limit.
UploadInvalid ==
    LET name == req.file.filename
        ext == IF server.svc = "backend" THEN Lower(name[Len(name)])
               ELSE IF Len(name) > 1 THEN Lower(name[Len(name)]) ELSE ""
    IN  \/ name = << >>
        \/ ext \notin {"wav", "mp3", "m4a", "flac", "ogg"}
        \/ server.svc # "backend" /\ req.file.size > 50 * 1024 * 1024

\* The analyzer or the emotion model was invoked for the answered request.
AnalyzerInvoked ==
    \E step \in {"analyze_audio_file", "analyze_emotion", "classifier", "fallback"} :
        step \in Range(log)

\* The availability check of the endpoint passes.
AnalyzerAvailable ==
    IF server.svc = "backend" THEN server.analyzer # "none"
    ELSE server.analyzer \notin {"none", "uninit"}

\* C1 as stated: a request that fails upload validation is answered 400 and
\* the analyzer is never invoked for it.
C1_Original ==
    (phase = "answered" /\ server.svc \in AudioServices /\ UploadInvalid)
        => (resp.status = 400 /\ ~AnalyzerInvoked)

\* C1 amended: a request that fails upload validation is answered 400 when
\* the endpoint's analyzer is available and 503 when it is not (the
\* availability check comes first); the analyzer is never invoked for it.
C1_ValidationBeforeModel ==
    (phase = "answered" /\ server.svc \in AudioServices /\ UploadInvalid)
        => /\ resp.status = (IF AnalyzerAvailable THEN 400 ELSE 503)
           /\ ~AnalyzerInvoked

C1_Witness ==
    /\ Answered("root") /\ UploadInvalid /\ req.file.size > MAX_FILE_SIZE_BYTES
    /\ req.file.filename = <<"clip", "WAV">>
    /\ resp.status = 400

\* The premises C2 states: the analyzer is initialized, the upload passes the
\* validation (extension, size, duration measured and at most 30 s) and can
\* be read and loaded.
C2_Premises ==
    /\ Answered("root")
    /\ server.analyzer \notin {"none", "uninit"}
    /\ ~UploadInvalid
    /\ req.env.durationOk /\ req.file.duration <= 30 * 1000
    /\ req.env.readOk /\ req.env.loadOk

C2_Success == resp.status = 200 /\ resp.body.success /\ resp.body.risk_level \in RiskLevels

C4_TooLongRejected ==
    (Answered("fresh") /\ req.file.duration > MAX_DURATION * 1000)
        => ~(resp.status = 200 /\ resp.body.success)

\* The bucket of a risk score (in hundredths): CRITICAL from 80, HIGH from 60,
\* MEDIUM from 40, LOW below.
Bucket(score) ==
    IF score >= 8000 THEN "CRITICAL"
    ELSE IF score >= 6000 THEN "HIGH"
    ELSE IF score >= 4000 THEN "MEDIUM"
    ELSE "LOW"

\* C9: every 200 response of Fresh Start POST /analyze has 0 <= risk_score <= 100,
\* 0 <= confidence <= 1, and the risk level that is the bucket of its risk score.
C9_ResponseBounds ==
    (Answered("fresh") /\ resp.status = 200)
        => /\ 0 <= resp.body.risk_score /\ resp.body.risk_score <= 10000
           /\ 0 <= resp.body.confidence /\ resp.body.confidence <= 1000
           /\ resp.body.risk_level = Bucket(resp.body.risk_score)

(***************************************************************************)
(* The batch endpoint of the root service (SpecBatch)                      *)
(***************************************************************************)

\* The largest batch the model uploads (the endpoint accepts 5).
MaxBatchFiles == 6

BatchGoodEnv ==
    RT_WithModel([readOk |-> TRUE, saveOk |-> TRUE, convertOk |-> TRUE, durationOk |-> TRUE,
                  loadOk |-> TRUE, featuresOk |-> TRUE],
                 [encodeOk |-> TRUE,
                  api |-> [kind |-> "result", items |-> << [label |-> "sadness", score |-> 900] >>],
                  pipeline |-> CallNotMade, energy |-> 5, zcr |-> 2])

\* The files of a batch: one without a filename, one too large, one whose
\* read raises, one that cannot be loaded, and one that is analysed.
BatchUploads ==
    { [file |-> [filename |-> << >>, size |-> 1024, duration |-> 1000], env |-> BatchGoodEnv],
      [file |-> [filename |-> <<"clip", "mp3">>, size |-> MAX_FILE_SIZE_BYTES + 1,
                 duration |-> 1000], env |-> BatchGoodEnv],
      [file |-> [filename |-> <<"clip", "WAV">>, size |-> 1024, duration |-> 1000],
       env |-> [BatchGoodEnv EXCEPT !.readOk = FALSE]],
      [file |-> [filename |-> <<"clip", "mp3">>, size |-> 1024, duration |-> 1000],
       env |-> [BatchGoodEnv EXCEPT !.loadOk = FALSE]],
      [file |-> [filename |-> <<"clip", "WAV">>, size |-> 1024, duration |-> 1000],
       env |-> BatchGoodEnv] }

RECURSIVE SeqsUpTo(_, _)
\* The sequences over S of length at most n.
SeqsUpTo(S, n) ==
    IF n = 0 THEN { << >> }
    ELSE LET shorter == SeqsUpTo(S, n - 1)
         IN  shorter \cup { Append(q, x) : q \in { t \in shorter : Len(t) = n - 1 }, x \in S }

InitBatch ==
    /\ server \in [svc : {"root"}, analyzer : RT_AnalyzerStates]
    /\ phase = "idle"
    /\ req = None
    /\ resp = None
    /\ log = << >>
    /\ temp_dir = {}
    /\ background = << >>

RootAnalyzeBatch ==
    /\ Idle("root")
    /\ \E files \in SeqsUpTo(BatchUploads, MaxBatchFiles) :
          Answer([files |-> files], analyze_batch_audio(server.analyzer, files))

NextBatch == RootAnalyzeBatch \/ Finish

SpecBatch == InitBatch /\ [][NextBatch]_vars

\* How often file i is recorded in the list.
Recorded(list, i) == Cardinality({ k \in 1..Len(list) : list[k].index = i })

\* The batch response is 200, every file is in exactly one of results and
\* errors, and successful + failed = total_files = the number of files.
BatchAccounted ==
    /\ resp.status = 200
    /\ \A i \in 1..Len(req.files) :
          Recorded(resp.body.results, i) + Recorded(resp.body.errors, i) = 1
    /\ resp.body.successful = Len(resp.body.results)
    /\ resp.body.failed = Len(resp.body.errors)
    /\ resp.body.successful + resp.body.failed = resp.body.total_files
    /\ resp.body.total_files = Len(req.files)

\* C3 as stated: every batch of at most 5 files is answered 200 with each
\* file in exactly one list.
C3_Original == (phase = "answered" /\ Len(req.files) <= 5) => BatchAccounted

\* C3 amended: when the analyzer is initialized, every batch of at most 5
\* files is answered 200 with each file in exactly one of results and errors,
\* so that successful + failed = total_files = the number of uploaded files.
C3_BatchAccounting ==
    (phase = "answered" /\ Len(req.files) <= 5 /\ server.analyzer \notin {"none", "uninit"})
        => BatchAccounted

\* A batch of five files that mixes a validation failure, a read failure, an
\* analysis failure and successes.
C3_Witness ==
    /\ phase = "answered" /\ Len(req.files) = 5 /\ resp.status = 200
    /\ resp.body.successful = 2 /\ resp.body.failed = 3
    /\ \E i, j, k \in 1..5 :
          /\ req.files[i].file.filename = << >>
          /\ ~req.files[j].env.readOk
          /\ ~req.files[k].env.loadOk

(***************************************************************************)
(* The two emotion-to-risk functions as pure functions (SpecRisk)          *)
(***************************************************************************)

InitRisk ==
    /\ server = [svc |-> "risk", analyzer |-> "none"]
    /\ phase = "idle"
    /\ req = None
    /\ resp = None
    /\ log = << >>
    /\ temp_dir = {}
    /\ background = << >>

\* Both functions applied to one label and one confidence in [0, 1].
MapRisk ==
    /\ Idle("risk")
    /\ \E emotion \in Labels, confidence \in 0..1000 :
          Answer([emotion |-> emotion, confidence |-> confidence],
                 [status |-> 0,
                  body |-> [fresh |-> map_to_risk_level(emotion, confidence),
                            root |-> map_emotion_to_risk(emotion, confidence)],
                  log |-> <<"map_to_risk_level", "map_emotion_to_risk">>])

NextRisk == MapRisk \/ Finish

SpecRisk == InitRisk /\ [][NextRisk]_vars

\* C10: for every label and confidence, map_to_risk_level of Fresh Start and
\* map_emotion_to_risk of audio_analyzer.py return the same level and score.
C10_SameFunction ==
    Answered("risk")
        => /\ resp.body.fresh.risk_level = resp.body.root.risk_level
           /\ resp.body.fresh.risk_score = resp.body.root.risk_score

\* Both functions applied on a threshold: sadness at confidence 0.5 is 80.0.
C10_Witness ==
    /\ Answered("risk")
    /\ req.emotion = "Sadness" /\ req.confidence = 500
    /\ resp.body.fresh = [risk_level |-> "CRITICAL", risk_score |-> 8000]
    /\ resp.body.root = [risk_level |-> "CRITICAL", risk_score |-> 8000]

(***************************************************************************)
(* Texts: a text is the sequence of its characters                         *)
(***************************************************************************)

\* The characters str.strip() removes, among those the texts below use.
Whitespace == {" ", "\t", "\n", "\r"}

\* str.lower() on the letters A..Z; every other character is unchanged.
UpperToLower ==
    [A |-> "a", B |-> "b", C |-> "c", D |-> "d", E |-> "e", F |-> "f", G |-> "g",
     H |-> "h", I |-> "i", J |-> "j", K |-> "k", L |-> "l", M |-> "m", N |-> "n",
     O |-> "o", P |-> "p", Q |-> "q", R |-> "r", S |-> "s", T |-> "t", U |-> "u",
     V |-> "v", W |-> "w", X |-> "x", Y |-> "y", Z |-> "z"]

TextLower(text) ==
    [i \in 1..Len(text) |->
        IF text[i] \in DOMAIN UpperToLower THEN UpperToLower[text[i]] ELSE text[i]]

\* str.strip(): the text between its first and its last non-whitespace
\* character, empty when there is none.
Strip(text) ==
    IF \A i \in 1..Len(text) : text[i] \in Whitespace THEN << >>
    ELSE LET first == CHOOSE i \in 1..Len(text) :
                         /\ text[i] \notin Whitespace
                         /\ \A j \in 1..(i-1) : text[j] \in Whitespace
             last == CHOOSE i \in 1..Len(text) :
                         /\ text[i] \notin Whitespace
                         /\ \A j \in (i+1)..Len(text) : text[j] \in Whitespace
         IN  SubSeq(text, first, last)

\* keyword in text: the keyword occurs as a contiguous substring.
Contains(text, keyword) ==
    \E i \in 1..(Len(text) - Len(keyword) + 1) :
        \A j \in 1..Len(keyword) : text[i + j - 1] = keyword[j]

\* n times the character c.
Repeat(c, n) == [i \in 1..n |-> c]

\* TextSentimentAnalyzer.RISK_PATTERNS, in the order of the dictionary.
RISK_PATTERNS ==
    <<
     [level |-> "CRITICAL",
      keywords |-> <<
          <<"s", "u", "i", "c", "i", "d", "e">>,
          <<"k", "i", "l", "l", " ", "m", "y", "s", "e", "l", "f">>,
          <<"e", "n", "d", " ", "m", "y", " ", "l", "i", "f", "e">>,
          <<"w", "a", "n", "t", " ", "t", "o", " ", "d", "i", "e">>,
          <<"e", "n", "d", "i", "n", "g", " ", "i", "t", " ", "a", "l", "l">>,
          <<"n", "o", " ", "r", "e", "a", "s", "o", "n", " ", "t", "o", " ", "l", "i", "v", "e">>,
          <<"b", "e", "t", "t", "e", "r", " ", "o", "f", "f", " ", "d", "e", "a", "d">>,
          <<"s", "u", "i", "c", "i", "d", "a", "l">>,
          <<"f", "i", "n", "a", "l", " ", "g", "o", "o", "d", "b", "y", "e">>,
          <<"g", "i", "v", "e", " ", "u", "p">>,
          <<"d", "o", "n", "e", " ", "w", "i", "t", "h", " ", "l", "i", "f", "e">>,
          <<"e", "s", "c", "a", "p", "e", " ", "p", "a", "i", "n">>,
          <<"d", "e", "a", "t", "h", " ", "w", "i", "s", "h">>,
          <<"c", "o", "m", "m", "i", "t", " ", "s", "u", "i", "c", "i", "d", "e">>,
          <<"t", "a", "k", "e", " ", "m", "y", " ", "l", "i", "f", "e">>,
          <<"e", "n", "d", " ", "e", "v", "e", "r", "y", "t", "h", "i", "n", "g">>,
          <<"n", "o", " ", "h", "o", "p", "e">>,
          <<"f", "a", "m", "i", "l", "y", " ", "b", "u", "r", "d", "e", "n">>,
          <<"c", "a", "n", "n", "o", "t", " ", "f", "a", "c", "e">>,
          <<"f", "i", "n", "a", "l", " ", "s", "o", "l", "u", "t", "i", "o", "n">>,
          <<"n", "o", " ", "w", "a", "y", " ", "o", "u", "t">>>>],
     [level |-> "HIGH",
      keywords |-> <<
          <<"h", "o", "p", "e", "l", "e", "s", "s">>,
          <<"w", "o", "r", "t", "h", "l", "e", "s", "s">>,
          <<"b", "u", "r", "d", "e", "n">>,
          <<"e", "m", "p", "t", "y">>,
          <<"n", "u", "m", "b">>,
          <<"s", "e", "l", "f", " ", "h", "a", "r", "m">>,
          <<"c", "u", "t", "t", "i", "n", "g">>,
          <<"o", "v", "e", "r", "d", "o", "s", "e">>,
          <<"h", "a", "r", "m", " ", "m", "y", "s", "e", "l", "f">>,
          <<"n", "o", " ", "f", "u", "t", "u", "r", "e">>,
          <<"n", "o", "t", "h", "i", "n", "g", " ", "m", "a", "t", "t", "e", "r", "s">>,
          <<"l", "o", "s", "t", " ", "a", "l", "l", " ", "h", "o", "p", "e">>,
          <<"f", "a", "i", "l", "u", "r", "e">>,
          <<"d", "i", "s", "a", "p", "p", "o", "i", "n", "t", "m", "e", "n", "t">>,
          <<"s", "h", "a", "m", "e">>,
          <<"g", "u", "i", "l", "t">>,
          <<"u", "s", "e", "l", "e", "s", "s">>,
          <<"g", "o", "o", "d", " ", "f", "o", "r", " ", "n", "o", "t", "h", "i", "n", "g">>,
          <<"w", "a", "s", "t", "e">>,
          <<"l", "o", "s", "e", "r">>>>],
     [level |-> "MEDIUM",
      keywords |-> <<
          <<"d", "e", "p", "r", "e", "s", "s", "e", "d">>,
          <<"a", "n", "x", "i", "o", "u", "s">>,
          <<"o", "v", "e", "r", "w", "h", "e", "l", "m", "e", "d">>,
          <<"s", "t", "r", "e", "s", "s", "e", "d">>,
          <<"l", "o", "n", "e", "l", "y">>,
          <<"c", "a", "n", "'", "t", " ", "s", "l", "e", "e", "p">>,
          <<"p", "a", "n", "i", "c">>,
          <<"f", "e", "a", "r">>,
          <<"s", "c", "a", "r", "e", "d">>,
          <<"w", "o", "r", "r", "i", "e", "d">>,
          <<"e", "x", "h", "a", "u", "s", "t", "e", "d">>,
          <<"b", "u", "r", "n", "e", "d", " ", "o", "u", "t">>,
          <<"i", "s", "o", "l", "a", "t", "e", "d">>,
          <<"h", "e", "l", "p", "l", "e", "s", "s">>,
          <<"t", "e", "n", "s", "i", "o", "n">>,
          <<"p", "r", "e", "s", "s", "u", "r", "e">>,
          <<"w", "o", "r", "r", "i", "e", "d", " ", "s", "i", "c", "k">>,
          <<"o", "v", "e", "r", "t", "h", "i", "n", "k", "i", "n", "g">>>>],
     [level |-> "LOW",
      keywords |-> <<
          <<"s", "a", "d">>,
          <<"w", "o", "r", "r", "i", "e", "d">>,
          <<"t", "e", "n", "s", "e">>,
          <<"u", "n", "h", "a", "p", "p", "y">>,
          <<"f", "r", "u", "s", "t", "r", "a", "t", "e", "d">>,
          <<"a", "n", "n", "o", "y", "e", "d">>,
          <<"d", "i", "s", "a", "p", "p", "o", "i", "n", "t", "e", "d">>,
          <<"t", "i", "r", "e", "d">>,
          <<"e", "x", "h", "a", "u", "s", "t", "e", "d">>,
          <<"d", "o", "w", "n">>,
          <<"m", "o", "o", "d", "y">>,
          <<"i", "r", "r", "i", "t", "a", "b", "l", "e">>,
          <<"u", "p", "s", "e", "t">>>>]>>

\* Short texts.  1: '', the empty text
\* 2: 'suicide', 7 characters
\* 3: '   suicide   ', 13 characters, 7 once stripped
\* 4: 'i am tired', exactly 10 characters
\* 5: 'hopeless!', 9 characters
\* 6: 'hopeless!\n', 10 characters, 9 once stripped
\* 7: 'I FEEL HOPELESS', upper case
\* 8: 'sad and worthless, want to die', keywords of three levels
\* 9: 'feeling worried', a keyword listed under MEDIUM and under LOW
\* 10: 'kill  myself', no keyword: two spaces
\* 11: 'hello world', no keyword
\* 12: ' a nice day ', 12 characters, exactly 10 once stripped
ShortTexts ==
    <<<<>>,
      <<"s", "u", "i", "c", "i", "d", "e">>,
      <<" ", " ", " ", "s", "u", "i", "c", "i", "d", "e", " ", " ", " ">>,
      <<"i", " ", "a", "m", " ", "t", "i", "r", "e", "d">>,
      <<"h", "o", "p", "e", "l", "e", "s", "s", "!">>,
      <<"h", "o", "p", "e", "l", "e", "s", "s", "!", "\n">>,
      <<"I", " ", "F", "E", "E", "L", " ", "H", "O", "P", "E", "L", "E", "S", "S">>,
      <<"s", "a", "d", " ", "a", "n", "d", " ", "w", "o", "r", "t", "h", "l", "e", "s", "s", ",", " ", "w", "a", "n", "t", " ", "t", "o", " ", "d", "i", "e">>,
      <<"f", "e", "e", "l", "i", "n", "g", " ", "w", "o", "r", "r", "i", "e", "d">>,
      <<"k", "i", "l", "l", " ", " ", "m", "y", "s", "e", "l", "f">>,
      <<"h", "e", "l", "l", "o", " ", "w", "o", "r", "l", "d">>,
      <<" ", "a", " ", "n", "i", "c", "e", " ", "d", "a", "y", " ">>>>

\* Long texts, around the limit of 5000 characters: 5000 and 5001 letters;
\* 5000 characters that strip to "suicide"; "want to die" followed by
\* whitespace, 5001 characters in all.
LongTexts ==
    <<Repeat("a", 5000),
      Repeat("a", 5001),
      Repeat(" ", 4993) \o ShortTexts[2],
      <<"w", "a", "n", "t", " ", "t", "o", " ", "d", "i", "e">> \o Repeat(" ", 4990)>>

Texts == Range(ShortTexts) \cup Range(LongTexts)

(***************************************************************************)
(* backend/text_analyzer.py: TextSentimentAnalyzer                         *)
(* (AISentimentAnalyzer of text-based-analyzer/main.py has the same        *)
(* detect_risk_keywords and the same scoring in analyze_text)              *)
(***************************************************************************)

risk_order == [CRITICAL |-> 4, HIGH |-> 3, MEDIUM |-> 2, LOW |-> 1]

\* The keywords of one entry of RISK_PATTERNS, each with its level.
LevelPatterns(entry) ==
    [i \in 1..Len(entry.keywords) |-> [keyword |-> entry.keywords[i], level |-> entry.level]]

\* Every (level, keyword) in the order the two loops of detect_risk_keywords
\* visit them.
AllPatterns ==
    LevelPatterns(RISK_PATTERNS[1]) \o LevelPatterns(RISK_PATTERNS[2])
      \o LevelPatterns(RISK_PATTERNS[3]) \o LevelPatterns(RISK_PATTERNS[4])

\* What detect_risk_keywords returns for the keywords found, in order: the
\* list, and the level of the highest risk_order in it, LOW when it is empty.
KeywordResult(found_keywords) ==
    LET levels == {found_keywords[i].level : i \in 1..Len(found_keywords)}
    IN  [found_keywords |-> found_keywords,
         max_risk_level |->
             IF levels = {} THEN "LOW"
             ELSE CHOOSE l \in levels : \A m \in levels : risk_order[l] >= risk_order[m]]

\* The two loops over a text: every keyword that occurs in it is appended.
KeywordLoop(text_lower) ==
    LET Found(p) == Contains(text_lower, p.keyword)
    IN  KeywordResult(SelectSeq(AllPatterns, Found))

\* detect_risk_keywords without text.lower().
detect_risk_keywords_no_lower(text) == KeywordLoop(text)

detect_risk_keywords(text) == KeywordLoop(TextLower(text))

\* What analyze_sentiment_with_hf returns: None (no model, a failed call, an
\* unusable answer, an exception) or a mapped label with its score in 1/1000.
NoSentiment == [kind |-> "none"]

Sentiments ==
    {NoSentiment}
      \cup [kind : {"result"}, label : {"NEGATIVE", "POSITIVE", "NEUTRAL"}, score : {500, 900}]

\* get_minimal_analysis: risk_score 20.0, confidence 0.5.
TXT_get_minimal_analysis ==
    [risk_level |-> "LOW", risk_score |-> 2000, confidence |-> 500, keywords_found |-> 1,
     model_used |-> "Fallback Analysis"]

\* analyze_text after the keyword detection: the scores from the level, the
\* number of keywords found and the sentiment.  Scores are in 1/100 point,
\* confidence in 1/1000; keywords_found is the number of entries of the list.
TXT_scores(risk_level, keywords, sentiment_result) ==
    LET scored == sentiment_result.kind = "result"
        sentiment_base == [LOW |-> 70, MEDIUM |-> 50, HIGH |-> 30, CRITICAL |-> 15]
        sentiment_value ==
            IF scored
            THEN IF sentiment_result.label = "NEGATIVE" THEN 10000 - sentiment_result.score * 10
                 ELSE IF sentiment_result.label = "POSITIVE" THEN sentiment_result.score * 10
                 ELSE 5000
            ELSE sentiment_base[risk_level] * 100
        risk_base == [LOW |-> 20, MEDIUM |-> 45, HIGH |-> 70, CRITICAL |-> 90]
        sentiment_adjustment == ((10000 - sentiment_value) * 3) \div 10
        adjusted == Min(10000, risk_base[risk_level] * 100 + sentiment_adjustment)
        risk_score == Min(10000, adjusted + Len(keywords) * 500)
        confidence == Min(950, 600 + Len(keywords) * 50 + (IF scored THEN 200 ELSE 0))
    IN  [risk_level |-> risk_level,
         risk_score |-> RoundTenths(risk_score),
         confidence |-> confidence,
         keywords_found |-> Min(10, Len(keywords)),
         model_used |-> IF scored THEN "Hugging Face" ELSE "Keyword Analysis"]

\* analyze_text on the stripped text: the minimal analysis below 10
\* characters, else the scores of the keywords detected.
TXT_analyze_detected(detected, sentiment_result) ==
    TXT_scores(detected.max_risk_level, detected.found_keywords, sentiment_result)

TXT_analyze_stripped(hf_available, stripped, sentiment) ==
    IF Len(stripped) < 10 THEN TXT_get_minimal_analysis
    ELSE TXT_analyze_detected(detect_risk_keywords(stripped),
                              IF hf_available THEN sentiment ELSE NoSentiment)

\* analyze_text: text = text.strip() comes first.
TXT_analyze_text(hf_available, text, sentiment) ==
    TXT_analyze_stripped(hf_available, Strip(text), sentiment)

(***************************************************************************)
(* The text endpoints                                                      *)
(***************************************************************************)

\* POST /analyze/text rejecting a text of exactly 5000 characters.
BE_analyze_text_exclusive_limit(analyzer, text, sentiment, raises) ==
    IF analyzer = "none" THEN HttpError(503, <<"check_analyzer">>)
    ELSE IF text = << >> \/ Len(Strip(text)) < 10
    THEN HttpError(400, <<"check_analyzer", "validate_text">>)
    ELSE IF Len(text) >= 5000 THEN HttpError(400, <<"check_analyzer", "validate_text">>)
    ELSE IF raises THEN HttpError(500, <<"check_analyzer", "validate_text", "analyze_text">>)
    ELSE [status |-> 200,
          body |-> TXT_analyze_text(analyzer = "hf", text, sentiment),
          log |-> <<"check_analyzer", "validate_text", "analyze_text">>]

\* POST /analyze/text of backend/main.py.  analyzer is "none" when
\* text_analyzer is None, else "hf" or "keywords" (HF_AVAILABLE or not);
\* raises: building the analysis or the response raises.
BE_analyze_text(analyzer, text, sentiment, raises) ==
    IF analyzer = "none" THEN HttpError(503, <<"check_analyzer">>)
    ELSE IF text = << >> \/ Len(Strip(text)) < 10
    THEN HttpError(400, <<"check_analyzer", "validate_text">>)
    ELSE IF Len(text) > 5000 THEN HttpError(400, <<"check_analyzer", "validate_text">>)
    ELSE IF raises THEN HttpError(500, <<"check_analyzer", "validate_text", "analyze_text">>)
    ELSE [status |-> 200,
          body |-> TXT_analyze_text(analyzer = "hf", text, sentiment),
          log |-> <<"check_analyzer", "validate_text", "analyze_text">>]

\* POST /analyze of text-based-analyzer/main.py: the analyzer is built when
\* the module is loaded, so there is no 503.
TB_analyze_text(analyzer, text, sentiment, raises) ==
    IF text = << >> \/ Len(Strip(text)) < 10 THEN HttpError(400, <<"validate_text">>)
    ELSE IF Len(text) > 5000 THEN HttpError(400, <<"validate_text">>)
    ELSE IF raises THEN HttpError(500, <<"validate_text", "analyze_text">>)
    ELSE [status |-> 200,
          body |-> TXT_analyze_text(analyzer = "hf", text, sentiment),
          log |-> <<"validate_text", "analyze_text">>]

TextServers ==
    [svc : {"backend_text"}, analyzer : {"none", "keywords", "hf"}]
      \cup [svc : {"text_based", "text_analyzer"}, analyzer : {"keywords", "hf"}]

InitText ==
    /\ server \in TextServers
    /\ phase = "idle"
    /\ req = None
    /\ resp = None
    /\ log = << >>
    /\ temp_dir = {}
    /\ background = << >>

\* The sentiment model answers only when it is asked: by an analyzer with
\* the Hugging Face API, for a request whose handler log reaches analyze_text.
TXT_Sentiments(analyzer, lg) ==
    IF analyzer = "hf" /\ "analyze_text" \in Range(lg) THEN Sentiments ELSE {NoSentiment}

BackendAnalyzeText ==
    /\ Idle("backend_text")
    /\ \E text \in Texts, raises \in BOOLEAN :
          LET dry == BE_analyze_text(server.analyzer, text, NoSentiment, TRUE)
          IN  \E s \in TXT_Sentiments(server.analyzer, dry.log) :
                 Answer([text |-> text, sentiment |-> s, raises |-> raises],
                        BE_analyze_text(server.analyzer, text, s, raises))

TextBasedAnalyze ==
    /\ Idle("text_based")
    /\ \E text \in Texts, raises \in BOOLEAN :
          LET dry == TB_analyze_text(server.analyzer, text, NoSentiment, TRUE)
          IN  \E s \in TXT_Sentiments(server.analyzer, dry.log) :
                 Answer([text |-> text, sentiment |-> s, raises |-> raises],
                        TB_analyze_text(server.analyzer, text, s, raises))

\* TextSentimentAnalyzer.analyze_text called on any of the short texts; the
\* model is asked for those that are not answered by get_minimal_analysis.
CallAnalyzeText ==
    /\ Idle("text_analyzer")
    /\ \E text \in Range(ShortTexts) :
          \E s \in (IF Len(Strip(text)) >= 10 /\ server.analyzer = "hf"
                     THEN Sentiments ELSE {NoSentiment}) :
             Answer([text |-> text, sentiment |-> s, raises |-> FALSE],
                    [status |-> 0,
                     body |-> TXT_analyze_text(server.analyzer = "hf", text, s),
                     log |-> <<"analyze_text">>])

NextText == BackendAnalyzeText \/ TextBasedAnalyze \/ CallAnalyzeText \/ Finish

SpecText == InitText /\ [][NextText]_vars

(***************************************************************************)
(* Claims about text analysis                                              *)
(***************************************************************************)

\* The levels of the RISK_PATTERNS keywords that occur in the text.
LevelsIn(text) ==
    {RISK_PATTERNS[k].level : k \in
        {n \in 1..Len(RISK_PATTERNS) :
            \E i \in 1..Len(RISK_PATTERNS[n].keywords) :
                Contains(text, RISK_PATTERNS[n].keywords[i])}}

\* The highest severity among them, LOW when there is none.
HighestSeverity(text) ==
    IF "CRITICAL" \in LevelsIn(text) THEN "CRITICAL"
    ELSE IF "HIGH" \in LevelsIn(text) THEN "HIGH"
    ELSE IF "MEDIUM" \in LevelsIn(text) THEN "MEDIUM"
    ELSE "LOW"

\* C5 as stated: for every text of at least 10 characters analyze_text
\* returns the highest severity among the keywords occurring in the
\* lower-cased text, whatever the sentiment model answered.
C5_Original ==
    Answered("text_analyzer") /\ Len(req.text) >= 10
        => resp.body.risk_level = HighestSeverity(TextLower(req.text))

\* C5: for every text whose stripped length is at least 10 characters,
\* analyze_text returns as risk_level the highest severity among the
\* RISK_PATTERNS keywords occurring in the lower-cased text, LOW when none
\* occurs, whatever the sentiment model answered; a text that strips to fewer
\* than 10 characters gets the minimal analysis, whose level is LOW.
C5_KeywordRiskLevel ==
    Answered("text_analyzer")
        => IF Len(Strip(req.text)) >= 10
           THEN resp.body.risk_level = HighestSeverity(TextLower(req.text))
           ELSE resp.body = TXT_get_minimal_analysis

\* An upper-case text with a HIGH keyword, scored POSITIVE by the model.
C5_Witness ==
    /\ Answered("text_analyzer")
    /\ server.analyzer = "hf"
    /\ req.text = ShortTexts[7]
    /\ req.sentiment.kind = "result" /\ req.sentiment.label = "POSITIVE"
    /\ resp.body.risk_level = "HIGH"

\* C6: the text endpoints answer 400 when the stripped text is shorter than
\* 10 characters or the text is longer than 5000, and call the analyzer for
\* every other text; the backend answers 503 before any length check when
\* its text analyzer is unavailable.
C6_TextLengthGate ==
    (Answered("backend_text") \/ Answered("text_based"))
        => IF server.svc = "backend_text" /\ server.analyzer = "none"
           THEN resp.status = 503 /\ "validate_text" \notin Range(log)
           ELSE IF Len(Strip(req.text)) < 10 \/ Len(req.text) > 5000
           THEN resp.status = 400 /\ "analyze_text" \notin Range(log)
           ELSE "analyze_text" \in Range(log)

\* A text of exactly 5000 characters is analysed by the backend, and a text
\* of 12 characters that strips to exactly 10 by the text-based analyzer.
C6_Witness ==
    \/ /\ Answered("backend_text")
       /\ Len(req.text) = 5000 /\ Len(Strip(req.text)) = 5000
       /\ resp.status = 200
    \/ /\ Answered("text_based")
       /\ Len(req.text) = 12 /\ Len(Strip(req.text)) = 10
       /\ resp.status = 200

(***************************************************************************)
(* backend/main.py: POST /analyze/combined                                 *)
(***************************************************************************)

\* calculate_video_risk_score: emotion_distribution is a list of emotions
\* with their share in percent; the score is in 1/100 point.
emotion_risks(emotion) ==
    CASE emotion = "sadness" -> 70
      [] emotion = "fear" -> 65
      [] emotion = "anger" -> 60
      [] emotion = "disgust" -> 50
      [] emotion = "neutral" -> 30
      [] emotion = "surprise" -> 25
      [] emotion = "happy" -> 15
      [] OTHER -> 40

RECURSIVE VideoRiskLoop(_, _)
VideoRiskLoop(emotion_dist, acc) ==
    IF emotion_dist = << >> THEN acc
    ELSE VideoRiskLoop(Tail(emotion_dist),
             [risk_score |-> acc.risk_score
                               + emotion_risks(Lower(emotion_dist[1].emotion))
                                   * emotion_dist[1].percentage,
              total_weight |-> acc.total_weight + emotion_dist[1].percentage])

calculate_video_risk_score(video_result) ==
    LET sums == VideoRiskLoop(video_result.emotion_distribution,
                              [risk_score |-> 0, total_weight |-> 0])
    IN  IF video_result.status # "success" THEN 3000
        ELSE IF sums.total_weight > 0 THEN sums.risk_score
        ELSE 3000

\* What process_video does: it raises, or returns a result with a status.
VideoOutcomes ==
    { [kind |-> "raise", status |-> "", emotion_distribution |-> << >>],
      [kind |-> "result", status |-> "no_faces_detected", emotion_distribution |-> << >>],
      [kind |-> "result", status |-> "success", emotion_distribution |-> << >>],
      [kind |-> "result", status |-> "success",
       emotion_distribution |-> << [emotion |-> "sadness", percentage |-> 100] >>],
      [kind |-> "result", status |-> "success",
       emotion_distribution |-> << [emotion |-> "HAPPY", percentage |-> 50],
                                   [emotion |-> "neutral", percentage |-> 50] >>] }

Absent == [kind |-> "none"]

\* The text parameter: absent, or a string (the empty one included).
CombinedTexts ==
    {Absent} \cup { [kind |-> "str", chars |-> ShortTexts[i]] : i \in {1, 2, 4, 8} }

CombinedGoodEnv ==
    WithModel([readOk |-> TRUE, convertOk |-> TRUE, infoOk |-> TRUE, loadOk |-> TRUE],
              [encodeOk |-> TRUE,
               api |-> [kind |-> "result", items |-> << [label |-> "sadness", score |-> 900] >>],
               featuresOk |-> TRUE, loud |-> FALSE, bright |-> FALSE])

\* The audio_file parameter: absent, or an upload with what happens to it:
\* analysed, classified neutral, without a filename, unreadable, not
\* convertible, too long.
CombinedAudios ==
    { Absent,
      [kind |-> "file", file |-> [filename |-> <<"clip", "WAV">>, size |-> 1024, duration |-> 1000],
       env |-> CombinedGoodEnv],
      [kind |-> "file", file |-> [filename |-> <<"clip", "WAV">>, size |-> 1024, duration |-> 1000],
       env |-> [CombinedGoodEnv EXCEPT
                  !.model.api.items = << [label |-> "neutral", score |-> 502] >>]],
      [kind |-> "file", file |-> [filename |-> << >>, size |-> 1024, duration |-> 1000],
       env |-> CombinedGoodEnv],
      [kind |-> "file", file |-> [filename |-> <<"clip", "WAV">>, size |-> 1024, duration |-> 1000],
       env |-> [CombinedGoodEnv EXCEPT !.readOk = FALSE]],
      [kind |-> "file", file |-> [filename |-> <<"clip", "mp3">>, size |-> 1024, duration |-> 1000],
       env |-> [CombinedGoodEnv EXCEPT !.convertOk = FALSE]],
      [kind |-> "file", file |-> [filename |-> <<"clip", "WAV">>, size |-> 1024,
                                  duration |-> MAX_DURATION * 1000 + 1],
       env |-> CombinedGoodEnv] }

\* The video_file parameter: absent, or an upload with what process_video does.
CombinedVideos == {Absent} \cup [kind : {"file"}, outcome : VideoOutcomes]

\* The text analysis returned: its result, score and confidence are kept.
RecordText(acc, text_result) ==
    [acc EXCEPT !.text_analysis = text_result,
                !.risk_scores = Append(@, text_result.risk_score),
                !.confidences = Append(@, text_result.confidence),
                !.log = Append(@, "text_analyzer")]

\* The text block: the text analysis, unless it raises.
CombinedTextBlock(srv, request, acc) ==
    IF request.text.kind = "none" \/ request.text.chars = << >> \/ srv.text = "none" THEN acc
    ELSE IF request.textRaises THEN [acc EXCEPT !.log = Append(@, "text_analyzer")]
    ELSE RecordText(acc, TXT_analyze_text(srv.text = "hf", request.text.chars,
                                          request.sentiment))

\* analyze_audio_file returned or raised: a result is kept with its score
\* and confidence, an exception is logged.
RecordAudio(acc, audio_result) ==
    IF audio_result.raised THEN [acc EXCEPT !.log = Append(@, "audio_analyzer")]
    ELSE [acc EXCEPT !.audio_analysis = audio_result,
                     !.risk_scores = Append(@, audio_result.risk_score),
                     !.confidences = Append(@, audio_result.confidence),
                     !.log = Append(@, "audio_analyzer")]

\* The audio block: read, extension, analyze_audio_file; any exception is
\* logged and the modality is left out.
CombinedAudioBlock(srv, request, acc) ==
    IF request.audio.kind = "none" \/ srv.audio = "none" THEN acc
    ELSE IF ~request.audio.env.readOk \/ request.audio.file.filename = << >> THEN acc
    ELSE RecordAudio(acc,
             BE_analyze_audio_file(srv.audio, request.audio.file.duration,
                 Lower(request.audio.file.filename[Len(request.audio.file.filename)]),
                 request.audio.env))

\* The video block with a score for every result, whatever its status.
CombinedVideoBlock_any_status(srv, request, acc) ==
    IF request.video.kind = "none" \/ srv.video = "none" THEN acc
    ELSE IF request.video.outcome.kind = "raise"
    THEN [acc EXCEPT !.log = Append(@, "video_analyzer")]
    ELSE [acc EXCEPT !.video_analysis = request.video.outcome,
                     !.risk_scores = Append(@, calculate_video_risk_score(request.video.outcome)),
                     !.confidences = Append(@, 700),
                     !.log = Append(@, "video_analyzer")]

\* The video block: process_video; its score and the confidence 0.7 are
\* appended only when the status is success.
CombinedVideoBlock(srv, request, acc) ==
    IF request.video.kind = "none" \/ srv.video = "none" THEN acc
    ELSE IF request.video.outcome.kind = "raise"
    THEN [acc EXCEPT !.log = Append(@, "video_analyzer")]
    ELSE IF request.video.outcome.status = "success"
    THEN [acc EXCEPT !.video_analysis = request.video.outcome,
                     !.risk_scores = Append(@, calculate_video_risk_score(request.video.outcome)),
                     !.confidences = Append(@, 700),
                     !.log = Append(@, "video_analyzer")]
    ELSE [acc EXCEPT !.video_analysis = request.video.outcome,
                     !.log = Append(@, "video_analyzer")]

RECURSIVE SumSeq(_)
SumSeq(s) == IF s = << >> THEN 0 ELSE s[1] + SumSeq(Tail(s))

\* The first check of analyze_combined, never true.
NoInput_never(request) == FALSE

\* not text and not audio_file and not video_file: an empty text counts as
\* no text.
NoInput(request) ==
    /\ request.text.kind = "none" \/ request.text.chars = << >>
    /\ request.audio.kind = "none"
    /\ request.video.kind = "none"

\* analyze_combined after the three blocks.  risk_scores and confidences
\* are the handler's two lists; overall_risk_score is round(mean, 2) in 1/100
\* point and overall_confidence round(mean, 2) in 1/100, a tie taken to even.
CombinedResponse(srv, request, acc) ==
    LET total == SumSeq(acc.risk_scores)
        n == Len(acc.risk_scores)
        overall_risk_level ==
            IF total >= 7500 * n THEN "CRITICAL"
            ELSE IF total >= 5500 * n THEN "HIGH"
            ELSE IF total >= 3500 * n THEN "MEDIUM"
            ELSE "LOW"
        useGemini == srv.gemini # "none"
    IN  IF acc.risk_scores = << >> THEN HttpError(500, acc.log)
        ELSE [status |-> 200,
              body |-> [overall_risk_level |-> overall_risk_level,
                        overall_risk_score |-> RoundDiv(total, n),
                        overall_confidence |->
                            RoundDiv(SumSeq(acc.confidences), 10 * Len(acc.confidences)),
                        risk_scores |-> acc.risk_scores,
                        confidences |-> acc.confidences,
                        text_analysis |-> acc.text_analysis,
                        audio_analysis |-> acc.audio_analysis,
                        video_analysis |-> acc.video_analysis,
                        recommendations |->
                            IF useGemini /\ ~request.geminiRaises THEN "gemini" ELSE "fallback"],
              log |-> IF useGemini THEN Append(acc.log, "gemini") ELSE acc.log]

\* The handler's results and lists before the first block.
CombinedStart ==
    [text_analysis |-> Absent, audio_analysis |-> Absent, video_analysis |-> Absent,
     risk_scores |-> << >>, confidences |-> << >>, log |-> << >>]

\* analyze_combined: the input check, the text, audio and video blocks in
\* this order, then the overall metrics and the recommendations.
analyze_combined(srv, request) ==
    IF NoInput(request) THEN HttpError(400, << >>)
    ELSE CombinedResponse(srv, request,
             CombinedVideoBlock(srv, request,
                 CombinedAudioBlock(srv, request,
                     CombinedTextBlock(srv, request, CombinedStart))))

CombinedServers ==
    [svc : {"combined"},
     analyzer : [text : {"none", "keywords", "hf"}, audio : {"none", "api", "fallback"},
                 video : {"none", "ready"}, gemini : {"none", "ready"}]]

InitCombined ==
    /\ server \in CombinedServers
    /\ phase = "idle"
    /\ req = None
    /\ resp = None
    /\ log = << >>
    /\ temp_dir = {}
    /\ background = << >>

\* What the text analysis and Gemini do is drawn for the requests that reach
\* them.
OutcomesAfter(srv, dry) ==
    LET textCalled == "text_analyzer" \in Range(dry.log)
        geminiCalled == srv.gemini # "none" /\ (dry.status = 200 \/ textCalled)
    IN  [sentiment : IF textCalled /\ srv.text = "hf"
                     THEN {NoSentiment, [kind |-> "result", label |-> "NEGATIVE", score |-> 900]}
                     ELSE {NoSentiment},
         textRaises : IF textCalled THEN BOOLEAN ELSE {FALSE},
         geminiRaises : IF geminiCalled THEN BOOLEAN ELSE {FALSE}]

CombinedOutcomes(srv, text, audio, video) ==
    OutcomesAfter(srv,
        analyze_combined(srv, [text |-> text, audio |-> audio, video |-> video,
                               sentiment |-> NoSentiment, textRaises |-> TRUE,
                               geminiRaises |-> FALSE]))

AnalyzeCombined ==
    /\ Idle("combined")
    /\ \E text \in CombinedTexts, audio \in CombinedAudios, video \in CombinedVideos :
          \E o \in CombinedOutcomes(server.analyzer, text, audio, video) :
             LET request == [text |-> text, audio |-> audio, video |-> video,
                             sentiment |-> o.sentiment, textRaises |-> o.textRaises,
                             geminiRaises |-> o.geminiRaises]
             IN  Answer(request, analyze_combined(server.analyzer, request))

NextCombined == AnalyzeCombined \/ Finish

SpecCombined == InitCombined /\ [][NextCombined]_vars

(***************************************************************************)
(* Claims about the combined analysis                                      *)
(***************************************************************************)

\* The risk scores of the modalities whose analysis is in the response:
\* text, audio, and video when its status is success.
SucceededScores(b) ==
    (IF b.text_analysis # Absent THEN <<b.text_analysis.risk_score>> ELSE << >>)
      \o (IF b.audio_analysis # Absent THEN <<b.audio_analysis.risk_score>> ELSE << >>)
      \o (IF b.video_analysis # Absent /\ b.video_analysis.status = "success"
          THEN <<calculate_video_risk_score(b.video_analysis)>> ELSE << >>)

\* C7: when /analyze/combined answers 200, the risk scores it averages are
\* exactly those of the modalities that succeeded (video only with status
\* success), the lists of risk scores and confidences have the same non-zero
\* length, overall_risk_score is their arithmetic mean (sent rounded to two
\* decimals), and overall_risk_level is CRITICAL for a mean >= 75, HIGH for
\* >= 55, MEDIUM for >= 35 and LOW otherwise.  A modality that raised, or a
\* video without status success, is not averaged.
C7_CombinedMean ==
    Answered("combined") /\ resp.status = 200
        => LET b == resp.body
               n == Len(b.risk_scores)
               total == SumSeq(b.risk_scores)
           IN  /\ b.risk_scores = SucceededScores(b)
               /\ n > 0 /\ Len(b.confidences) = n
               /\ req.textRaises => b.text_analysis = Absent
               /\ b.overall_risk_score = RoundDiv(total, n)
               /\ b.overall_risk_level =
                     (IF total >= 75 * 100 * n THEN "CRITICAL"
                      ELSE IF total >= 55 * 100 * n THEN "HIGH"
                      ELSE IF total >= 35 * 100 * n THEN "MEDIUM"
                      ELSE "LOW")

\* All three modalities are averaged; and a video without faces, sent with
\* a text, is left out of the mean.
C7_Witness ==
    /\ Answered("combined") /\ resp.status = 200
    /\ \/ Len(resp.body.risk_scores) = 3 /\ resp.body.overall_risk_level = "HIGH"
       \/ /\ req.video.kind = "file" /\ req.video.outcome.status = "no_faces_detected"
          /\ server.analyzer.video = "ready"
          /\ Len(resp.body.risk_scores) = 1

\* C8: when text, audio_file and video_file are all absent, /analyze/combined
\* answers 400 and calls no analyzer and not Gemini.
C8_NoInputRejected ==
    (/\ Answered("combined")
     /\ req.text.kind = "none" /\ req.audio.kind = "none" /\ req.video.kind = "none")
        => resp.status = 400 /\ log = << >>

\* A request without any input, sent to a backend with every analyzer and
\* Gemini available.
C8_Witness ==
    /\ Answered("combined")
    /\ server.analyzer = [text |-> "hf", audio |-> "api", video |-> "ready", gemini |-> "ready"]
    /\ req.text.kind = "none" /\ req.audio.kind = "none" /\ req.video.kind = "none"
    /\ resp.status = 400

(***************************************************************************)
(* The root service (main.py) with its temp directory (SpecRoot)          *)
(*                                                                         *)
(* temp_dir holds the files of temp/, named by the number that stands for  *)
(* their uuid4.  background holds the paths that the request's             *)
(* BackgroundTasks has been asked to clean up.                             *)
(***************************************************************************)

\* The most files that temp/ holds in the model.
MaxTempFiles == 2

RT_SAMPLE_RATE == 16000

\* GET /models answering 503 also for an analyzer that is not initialized.
get_models_requires_initialized(analyzer) ==
    IF analyzer \in {"none", "uninit"} THEN HttpError(503, <<"check_analyzer">>)
    ELSE [status |-> 200,
          body |-> [sample_rate |-> RT_SAMPLE_RATE, max_duration |-> MAX_DURATION,
                    supported_formats |-> RT_ALLOWED_EXTENSIONS, status |-> "active"],
          log |-> <<"check_analyzer">>]

\* GET /models of main.py.
get_models(analyzer) ==
    IF analyzer = "none" THEN HttpError(503, <<"check_analyzer">>)
    ELSE [status |-> 200,
          body |-> [sample_rate |-> RT_SAMPLE_RATE, max_duration |-> MAX_DURATION,
                    supported_formats |-> RT_ALLOWED_EXTENSIONS,
                    status |-> IF analyzer = "uninit" THEN "inactive" ELSE "active"],
          log |-> <<"check_analyzer">>]

\* The keys of AudioEmotionAnalyzer.MENTAL_HEALTH_RESOURCES.
RT_MENTAL_HEALTH_RESOURCES ==
    {"emergency_helplines", "telemedicine_services", "government_resources",
     "regional_support"}

\* GET /resources of main.py.
get_resources(analyzer) ==
    IF analyzer = "none" THEN HttpError(503, <<"check_analyzer">>)
    ELSE [status |-> 200,
          body |-> [status |-> "Mental health resources",
                    resources |-> RT_MENTAL_HEALTH_RESOURCES],
          log |-> <<"check_analyzer">>]

\* The uploads sent to POST /analyze: those of the batch, an mp3 whose
\* conversion fails, and clips just below and just above MAX_DURATION.
RootRequests ==
    BatchUploads \cup
    { [file |-> [filename |-> <<"clip", "mp3">>, size |-> 1024, duration |-> 1000],
       env |-> [BatchGoodEnv EXCEPT !.convertOk = FALSE]],
      [file |-> [filename |-> <<"clip", "WAV">>, size |-> 1024,
                 duration |-> MAX_DURATION * 1000],
       env |-> BatchGoodEnv],
      [file |-> [filename |-> <<"clip", "WAV">>, size |-> 1024,
                 duration |-> MAX_DURATION * 1000 + 1],
       env |-> BatchGoodEnv],
      [file |-> [filename |-> <<"clip", "WAV">>, size |-> 1024, duration |-> 1000],
       env |-> [BatchGoodEnv EXCEPT !.saveOk = FALSE]] }

InitRoot ==
    /\ server \in [svc : {"root"}, analyzer : RT_AnalyzerStates]
    /\ phase = "idle"
    /\ req = None
    /\ resp = None
    /\ log = << >>
    /\ temp_dir = {}
    /\ background = << >>

\* FileHandler.save_temp_file names the file by a fresh uuid4.
NewTempPath == CHOOSE p \in 1..MaxTempFiles : p \notin temp_dir

\* POST /analyze of main.py with its effect on temp/: the file is written by
\* save_temp_file and its cleanup is scheduled right after.
RootAnalyzeAudio ==
    /\ Idle("root")
    /\ Cardinality(temp_dir) < MaxTempFiles
    /\ \E request \in RootRequests :
          LET r == RT_analyze_audio(server.analyzer, request.file, request.env)
              saved == "schedule_cleanup" \in Range(r.log)
          IN  /\ phase' = "answered"
              /\ req' = [endpoint |-> "POST /analyze", file |-> request.file,
                         env |-> request.env,
                         temp_path |-> IF saved THEN NewTempPath ELSE 0]
              /\ resp' = [status |-> r.status, body |-> r.body]
              /\ log' = r.log
              /\ temp_dir' = IF saved THEN temp_dir \cup {NewTempPath} ELSE temp_dir
              /\ background' = IF saved THEN <<NewTempPath>> ELSE << >>
              /\ UNCHANGED server

GetModels ==
    /\ Idle("root")
    /\ Answer([endpoint |-> "GET /models"], get_models(server.analyzer))

GetResources ==
    /\ Idle("root")
    /\ Answer([endpoint |-> "GET /resources"], get_resources(server.analyzer))

\* The response goes out.  The tasks of background_tasks travel with the
\* response that the endpoint returns; the JSONResponse that
\* http_exception_handler builds for a raised HTTPException carries none.
SendResponse ==
    /\ phase = "answered"
    /\ LET returned == resp.status = 200
           tasks == IF returned THEN background ELSE << >>
       IN  /\ background' = tasks
           /\ phase' = IF tasks = << >> THEN "idle" ELSE "background"
    /\ req' = None
    /\ resp' = None
    /\ log' = << >>
    /\ UNCHANGED <<server, temp_dir>>

\* cleanup_background(filepath), run after the response was sent.
CleanupBackground ==
    /\ phase = "background"
    /\ background # << >>
    /\ temp_dir' = temp_dir \ {Head(background)}
    /\ background' = Tail(background)
    /\ phase' = IF Tail(background) = << >> THEN "idle" ELSE "background"
    /\ UNCHANGED <<server, req, resp, log>>

NextRoot == RootAnalyzeAudio \/ GetModels \/ GetResources \/ SendResponse \/ CleanupBackground

SpecRoot == InitRoot /\ [][NextRoot]_vars

\* C11: GET /models and GET /resources of main.py answer 503 exactly when the
\* analyzer is None, and 200 whenever the analyzer object was constructed,
\* also when analyzer.initialized is false.
C11_InfoEndpoints ==
    (Answered("root") /\ req.endpoint \in {"GET /models", "GET /resources"})
        => /\ (resp.status = 503) <=> (server.analyzer = "none")
           /\ (server.analyzer # "none") => resp.status = 200

\* GET /models on a constructed analyzer that failed to initialize: 200, with
\* status "inactive".
C11_Witness ==
    /\ Answered("root") /\ req.endpoint = "GET /models"
    /\ server.analyzer = "uninit"
    /\ resp.status = 200 /\ resp.body.status = "inactive"

\* The response is always sent and a task that travels with it is always run.
SpecRootLive == SpecRoot /\ WF_vars(SendResponse) /\ WF_vars(CleanupBackground)

\* C18: every temporary file written by save_temp_file is removed by the
\* scheduled cleanup_background task once its request has finished, also when
\* the request ends in an error after the file was saved.
C18_TempFilesRemoved ==
    \A p \in 1..MaxTempFiles : (p \in temp_dir) ~> (p \notin temp_dir)

(***************************************************************************)
(* processor.py: the multimodal pipeline and its fusion (SpecProcessor)    *)
(*                                                                         *)
(* Scores of the pipeline are integers in thousandths.  A transcript is    *)
(* the sequence of its words, stripped of punctuation and lower-cased.     *)
(***************************************************************************)

\* x / d rounded to the nearest integer for either sign of x.
RoundSigned(x, d) == IF x >= 0 THEN RoundDiv(x, d) ELSE 0 - RoundDiv(0 - x, d)

Abs(x) == IF x >= 0 THEN x ELSE 0 - x

\* Which optional packages the import block found.
Libs ==
    [cv2 : BOOLEAN, VideoFileClip : BOOLEAN, DeepFace : BOOLEAN, whisper : BOOLEAN,
     pipeline : BOOLEAN, openai : BOOLEAN]

\* The uploaded video: a file moviepy cannot open, one without an audio
\* stream, one whose audio cannot be written, and one with audio.
Videos == {"unreadable", "silent", "audio_write_fails", "sound"}

\* extract_audio: True only when moviepy is installed and the audio was written.
extract_audio(libs, video) ==
    IF ~libs.VideoFileClip THEN [ok |-> FALSE, note |-> "moviepy not installed"]
    ELSE IF video = "unreadable" THEN [ok |-> FALSE, note |-> "error"]
    ELSE IF video = "silent" THEN [ok |-> FALSE, note |-> "no-audio-stream"]
    ELSE IF video = "audio_write_fails" THEN [ok |-> FALSE, note |-> "error"]
    ELSE [ok |-> TRUE, note |-> "none"]

get_sentiment_from_expression(expression) ==
    IF expression \in {"happy", "surprised"} THEN "positive"
    ELSE IF expression \in {"sad", "angry", "fearful"} THEN "negative"
    ELSE "neutral"

\* What the facial stage sees: no sampled frame, frames without a detection,
\* or the dominant emotion (random in the simulation, DeepFace's otherwise).
FaceOutcomes == {"no-frames", "no-detections", "happy", "sad", "surprise", "fear"}

SimulatedFaces == {"happy", "sad", "surprised", "neutral"}

\* analyze_facial_expressions; sample_frames opens the video outside any try,
\* so a video that cannot be opened raises out of the stage.
analyze_facial_expressions(libs, video, faces) ==
    IF ~libs.DeepFace \/ ~libs.cv2
    THEN [raised |-> FALSE, dominantExpression |-> faces,
          sentiment |-> get_sentiment_from_expression(faces),
          note |-> "simulated (DeepFace not installed)"]
    ELSE IF ~libs.VideoFileClip
    THEN [raised |-> FALSE, dominantExpression |-> "unknown", sentiment |-> "neutral",
          note |-> "no-frames"]
    ELSE IF video = "unreadable"
    THEN [raised |-> TRUE, dominantExpression |-> "unknown", sentiment |-> "neutral",
          note |-> "VideoFileClip raised"]
    ELSE IF faces \in {"no-frames", "no-detections"}
    THEN [raised |-> FALSE, dominantExpression |-> "unknown", sentiment |-> "neutral",
          note |-> faces]
    ELSE [raised |-> FALSE, dominantExpression |-> faces,
          sentiment |-> get_sentiment_from_expression(faces), note |-> "deepface"]

\* Words that contain one of the positive, or of the negative, keywords.
PositiveWords == {"excited", "hopeful", "goodbye"}

NegativeWords == {"frustrated", "worried", "sadly"}

Transcripts ==
    { << >>,
      <<"really", "excited", "about", "this">>,
      <<"frustrated", "nothing", "seems", "to", "work">>,
      <<"worried", "but", "hopeful">> }

\* What whisper does when it is called: a transcript or an exception.
SttOutcomes == [kind : {"text"}, words : Transcripts] \cup {[kind |-> "error", words |-> << >>]}

transcribe_whisper(libs, stt) ==
    IF ~libs.whisper THEN [text |-> stt.words, note |-> "simulated (whisper missing)"]
    ELSE IF stt.kind = "error" THEN [text |-> << >>, note |-> "error"]
    ELSE [text |-> stt.words, note |-> "whisper"]

\* The number of words of the transcript that are in the set.
CountWords(words, S) == Cardinality({i \in 1..Len(words) : words[i] \in S})

analyze_text_sentiment_local(words) ==
    LET pc == CountWords(words, PositiveWords)
        nc == CountWords(words, NegativeWords)
        n == Len(words)
    IN  IF n = 0 THEN [sentiment |-> "neutral", score |-> 0]
        ELSE [sentiment |-> IF 20 * (pc - nc) > n THEN "positive"
                            ELSE IF 20 * (pc - nc) < 0 - n THEN "negative"
                            ELSE "neutral",
              score |-> RoundSigned(1000 * (pc - nc), n)]

\* What the audio classifier does when it is called.
SerOutcomes ==
    { [kind |-> "result", label |-> "hap", score |-> 900],
      [kind |-> "result", label |-> "sad", score |-> 800],
      [kind |-> "result", label |-> "happy", score |-> 0],
      [kind |-> "empty", label |-> "neutral", score |-> 0],
      [kind |-> "error", label |-> "neutral", score |-> 0] }

\* The candidates of the simulation.
SerCandidates ==
    { [kind |-> "result", label |-> "happy", score |-> 600],
      [kind |-> "result", label |-> "neutral", score |-> 200],
      [kind |-> "result", label |-> "sad", score |-> 100],
      [kind |-> "result", label |-> "angry", score |-> 100] }

PR_analyze_audio_emotion(libs, ser) ==
    IF ~libs.pipeline
    THEN [label |-> ser.label, score |-> ser.score, note |-> "simulated (transformers missing)"]
    ELSE IF ser.kind = "result"
    THEN [label |-> ser.label, score |-> ser.score, note |-> "hf-pipeline"]
    ELSE IF ser.kind = "empty" THEN [label |-> "neutral", score |-> 0, note |-> "no-output"]
    ELSE [label |-> "neutral", score |-> 0, note |-> "error"]

\* local_fusion: the weighted sum 0.3 facial + 0.3 vocal + 0.4 text, held in
\* ten-thousandths until it is rounded.
local_fusion(facial, vocal, text) ==
    LET facial_score == IF facial.sentiment = "positive" THEN 1
                        ELSE IF facial.sentiment = "negative" THEN 0 - 1 ELSE 0
        vocal_score ==
            IF vocal.score # 0
            THEN IF vocal.label \in {"sad", "angry"} THEN 0 - Abs(vocal.score)
                 ELSE vocal.score
            ELSE IF vocal.label = "happy" THEN 600
            ELSE IF vocal.label \in {"sad", "angry"} THEN 0 - 500
            ELSE 0
        ts == Max(0 - 1000, Min(1000, text.score))
        final_score == 3000 * facial_score + 3 * vocal_score + 4 * ts
    IN  [source |-> "local_fusion",
         sentiment |-> IF final_score > 2000 THEN "positive"
                       ELSE IF final_score < 0 - 2000 THEN "negative" ELSE "neutral",
         score |-> RoundSigned(final_score, 10),
         confidence |-> IF final_score > 2000 \/ final_score < 0 - 2000
                        THEN RoundDiv(Min(95000, 60000 + 5 * Abs(final_score)), 100)
                        ELSE RoundDiv(Max(50000, 70000 - 10 * Abs(final_score)), 100)]

\* The openai_api_key argument: None, the empty string, or a key.
ApiKeys == {"none", "empty", "key"}

\* What the chat completion does when it is called: it raises, or its content
\* holds a JSON object, braces that do not parse, or no braces at all.
LlmOutcomes == {"raises", "json", "bad_json", "raw"}

LlmNotCalled == "not_called"

\* llm_fusion: (result, note), the result None unless the call succeeds.
llm_fusion(libs, openai_api_key, llm) ==
    IF ~libs.openai \/ openai_api_key # "key"
    THEN [result |-> None, note |-> "openai-not-configured"]
    ELSE IF llm = "json"
    THEN [result |-> [source |-> "llm", sentiment |-> "positive", confidence |-> 850],
          note |-> "openai"]
    ELSE IF llm = "raw"
    THEN [result |-> [source |-> "llm", sentiment |-> "neutral", confidence |-> 600],
          note |-> "openai-raw"]
    ELSE [result |-> None, note |-> "openai-error"]

\* The fusion step of process_file.
PR_fusion(libs, openai_api_key, llm, facial, vocal, text_summary) ==
    LET fusion == IF openai_api_key = "key" THEN llm_fusion(libs, openai_api_key, llm)
                  ELSE [result |-> None, note |-> "none"]
    IN  IF fusion.result = None
        THEN [final |-> local_fusion(facial, vocal, text_summary), fusion |-> "local-fusion"]
        ELSE [final |-> fusion.result, fusion |-> fusion.note]

\* process_file: the stages in order; an exception of a stage leaves it.
process_file(libs, video, openai_api_key, out) ==
    LET audio == extract_audio(libs, video)
        facial == analyze_facial_expressions(libs, video, out.faces)
        stt == IF audio.ok THEN transcribe_whisper(libs, out.stt)
               ELSE [text |-> << >>, note |-> "no-audio"]
        text_summary == analyze_text_sentiment_local(stt.text)
        vocal == IF audio.ok THEN PR_analyze_audio_emotion(libs, out.ser)
                 ELSE [label |-> "neutral", score |-> 0, note |-> "no-audio"]
        fused == PR_fusion(libs, openai_api_key, out.llm, facial, vocal, text_summary)
    IN  IF facial.raised
        THEN [status |-> "raised", body |-> None,
              log |-> <<"extract_audio", "analyze_facial_expressions">>]
        ELSE [status |-> "returned",
              body |-> [facial |-> facial, vocal |-> vocal, text |-> text_summary,
                        final |-> fused.final, audio |-> audio, stt_note |-> stt.note,
                        fusion |-> fused.fusion],
              log |-> <<"extract_audio", "analyze_facial_expressions">>
                      \o (IF audio.ok THEN <<"transcribe_whisper">> ELSE << >>)
                      \o <<"analyze_text_sentiment_local">>
                      \o (IF audio.ok THEN <<"analyze_audio_emotion">> ELSE << >>)
                      \o (IF openai_api_key = "key" THEN <<"llm_fusion">> ELSE << >>)
                      \o (IF fused.fusion = "local-fusion" THEN <<"local_fusion">> ELSE << >>)]

InitProcessor ==
    /\ server = [svc |-> "processor", analyzer |-> "none"]
    /\ phase = "idle"
    /\ req = None
    /\ resp = None
    /\ log = << >>
    /\ temp_dir = {}
    /\ background = << >>

\* The outcomes of the calls that one run makes; a call that is not made has
\* a fixed outcome.
FacesOf(libs) == IF ~libs.DeepFace \/ ~libs.cv2 THEN SimulatedFaces ELSE FaceOutcomes

SttOf(libs, video) ==
    IF ~extract_audio(libs, video).ok THEN {[kind |-> "error", words |-> << >>]}
    ELSE IF ~libs.whisper THEN {o \in SttOutcomes : o.kind = "text" /\ o.words # << >>}
    ELSE SttOutcomes

SerOf(libs, video) ==
    IF ~extract_audio(libs, video).ok THEN {[kind |-> "error", label |-> "neutral", score |-> 0]}
    ELSE IF ~libs.pipeline THEN SerCandidates
    ELSE SerOutcomes

LlmOf(libs, openai_api_key) ==
    IF libs.openai /\ openai_api_key = "key" THEN LlmOutcomes ELSE {LlmNotCalled}

ProcessFile ==
    /\ Idle("processor")
    /\ \E libs \in Libs, video \in Videos, openai_api_key \in ApiKeys :
          \E faces \in FacesOf(libs), stt \in SttOf(libs, video), ser \in SerOf(libs, video),
             llm \in LlmOf(libs, openai_api_key) :
             LET out == [faces |-> faces, stt |-> stt, ser |-> ser, llm |-> llm]
             IN  Answer([libs |-> libs, video |-> video, openai_api_key |-> openai_api_key,
                         out |-> out],
                        process_file(libs, video, openai_api_key, out))

NextProcessor == ProcessFile \/ Finish

SpecProcessor == InitProcessor /\ [][NextProcessor]_vars

\* The LLM was asked and gave a result.
LlmSucceeded ==
    req.openai_api_key = "key" /\ req.libs.openai /\ req.out.llm \in {"json", "raw"}

\* C12: process_file always returns a final fusion result: the LLM's, with
\* fusion note openai or openai-raw, only when a key is given and llm_fusion
\* succeeds, and otherwise local_fusion's result with fusion note local-fusion.
C12_FinalFusion ==
    Answered("processor")
        => /\ resp.status = "returned"
           /\ IF LlmSucceeded
              THEN /\ resp.body.fusion \in {"openai", "openai-raw"}
                   /\ resp.body.final.source = "llm"
              ELSE /\ resp.body.fusion = "local-fusion"
                   /\ resp.body.final =
                         local_fusion(resp.body.facial, resp.body.vocal, resp.body.text)

(***************************************************************************)
(* app.py: POST /analyze of the Flask application (SpecApp)                *)
(***************************************************************************)

AP_VIDEO_EXTENSIONS == {"mp4", "webm", "avi", "mov"}

\* file.filename.lower().endswith(('.mp4', '.webm', '.avi', '.mov'))
AP_HasVideoExtension(filename) ==
    Len(filename) > 1 /\ Lower(filename[Len(filename)]) \in AP_VIDEO_EXTENSIONS

\* SentimentAnalyzer.analyze_text_sentiment on the words of the text.
SA_analyze_text_sentiment(words) ==
    LET positive_count == CountWords(words, PositiveWords)
        negative_count == CountWords(words, NegativeWords)
        n == Len(words)
    IN  IF n = 0 THEN [sentiment |-> "neutral", score |-> 0]
        ELSE [sentiment |-> IF 20 * (positive_count - negative_count) > n THEN "positive"
                            ELSE IF 20 * (positive_count - negative_count) < 0 - n
                            THEN "negative" ELSE "neutral",
              score |-> RoundSigned(1000 * (positive_count - negative_count), n)]

\* SentimentAnalyzer.compute_final_sentiment: 0.3 facial + 0.3 vocal + 0.4 text,
\* the text score doubled and clamped, held in ten-thousandths until rounded.
SA_compute_final_sentiment(facial_result, vocal_result, text_result) ==
    LET facial_score == IF facial_result.sentiment = "positive" THEN 1
                        ELSE IF facial_result.sentiment = "negative" THEN 0 - 1 ELSE 0
        vocal_score == vocal_result.sentimentScore
        text_score == Max(0 - 1000, Min(1000, text_result.score * 2))
        final_score == 3000 * facial_score + 3 * vocal_score + 4 * text_score
    IN  [sentiment |-> IF final_score > 2000 THEN "positive"
                       ELSE IF final_score < 0 - 2000 THEN "negative" ELSE "neutral",
         score |-> RoundSigned(final_score, 10),
         confidence |-> IF final_score > 2000 \/ final_score < 0 - 2000
                        THEN RoundDiv(Min(95000, 60000 + 5 * Abs(final_score)), 100)
                        ELSE RoundDiv(Max(50000, 70000 - 10 * Abs(final_score)), 100)]

\* The random draws of the simulation: the tone score of analyze_vocal_tone
\* and the sample text of speech_to_text.  The happy expression, drawn from
\* [0.3, 0.7) against others below 0.3, is always the dominant one.
Simulations ==
    [toneSentiment : {"excited/positive"}, sentimentScore : {625},
     words : Transcripts \ {<< >>}]
      \cup [toneSentiment : {"sad/low"}, sentimentScore : {0 - 400},
            words : Transcripts \ {<< >>}]

\* SentimentAnalyzer.process_video
SA_process_video(sim) ==
    LET facial_result == [dominantExpression |-> "happy",
                          sentiment |-> get_sentiment_from_expression("happy")]
        vocal_result == [toneSentiment |-> sim.toneSentiment,
                         sentimentScore |-> sim.sentimentScore]
        text_result == SA_analyze_text_sentiment(sim.words)
    IN  [facial |-> facial_result, vocal |-> vocal_result, text |-> text_result,
         final |-> SA_compute_final_sentiment(facial_result, vocal_result, text_result)]

\* POST /analyze with an exception of processor.process_file left to the
\* outer handler.
analyze_sentiment_no_fallback(request) ==
    LET run == process_file(request.libs, request.video, request.openai_api_key, request.out)
        upTo(n) == SubSeq(<<"check_part", "check_filename", "check_extension", "save",
                            "import_processor">>, 1, n)
    IN  IF ~request.has_video
        THEN [status |-> 400, body |-> [error |-> "No video file provided"], log |-> upTo(1)]
        ELSE IF request.filename = << >>
        THEN [status |-> 400, body |-> [error |-> "No video file selected"], log |-> upTo(2)]
        ELSE IF ~AP_HasVideoExtension(request.filename)
        THEN [status |-> 400, body |-> [error |-> "Invalid video format"], log |-> upTo(3)]
        ELSE IF ~request.saveOk
        THEN [status |-> 500, body |-> [error |-> "save failed"], log |-> upTo(4)]
        ELSE IF ~request.importOk
        THEN [status |-> 500, body |-> [error |-> "import failed"], log |-> upTo(5)]
        ELSE IF run.status = "raised"
        THEN [status |-> 500, body |-> [error |-> "process_file failed"],
              log |-> upTo(5) \o <<"process_file">>]
        ELSE [status |-> 200, body |-> run.body, log |-> upTo(5) \o <<"process_file">>]

\* POST /analyze of app.py.
analyze_sentiment(request) ==
    LET run == process_file(request.libs, request.video, request.openai_api_key, request.out)
        upTo(n) == SubSeq(<<"check_part", "check_filename", "check_extension", "save",
                            "import_processor">>, 1, n)
    IN  IF ~request.has_video
        THEN [status |-> 400, body |-> [error |-> "No video file provided"], log |-> upTo(1)]
        ELSE IF request.filename = << >>
        THEN [status |-> 400, body |-> [error |-> "No video file selected"], log |-> upTo(2)]
        ELSE IF ~AP_HasVideoExtension(request.filename)
        THEN [status |-> 400, body |-> [error |-> "Invalid video format"], log |-> upTo(3)]
        ELSE IF ~request.saveOk
        THEN [status |-> 500, body |-> [error |-> "save failed"], log |-> upTo(4)]
        ELSE IF ~request.importOk
        THEN [status |-> 200, body |-> SA_process_video(request.sim),
              log |-> upTo(5) \o <<"process_video">>]
        ELSE IF run.status = "raised"
        THEN [status |-> 200, body |-> SA_process_video(request.sim),
              log |-> upTo(5) \o <<"process_file", "process_video">>]
        ELSE [status |-> 200, body |-> run.body, log |-> upTo(5) \o <<"process_file">>]

\* The filenames of the uploaded part: empty, without extension, with another
\* extension, and video names in either case, also one that is only ".mp4".
AP_Filenames ==
    { << >>, <<"clip">>, <<"mp4">>, <<"clip", "txt">>, <<"clip", "mp4", "exe">>,
      <<"clip", "mp4">>, <<"clip", "MP4">>, <<"holiday", "2024", "Mov">>, <<"", "mp4">>,
      <<"clip", "webm">>, <<"clip", "avi">> }

\* The hosts the application runs on: every optional package, or none.
AP_Libs ==
    { [cv2 |-> b, VideoFileClip |-> b, DeepFace |-> b, whisper |-> b, pipeline |-> b,
       openai |-> b] : b \in BOOLEAN }

InitApp ==
    /\ server = [svc |-> "app", analyzer |-> "ready"]
    /\ phase = "idle"
    /\ req = None
    /\ resp = None
    /\ log = << >>
    /\ temp_dir = {}
    /\ background = << >>

\* The draws of the simulation matter when it runs.
SimulationsOf(request) ==
    IF "process_video" \in Range(analyze_sentiment(request).log) THEN Simulations
    ELSE {CHOOSE s \in Simulations : TRUE}

AnalyzeSentiment ==
    /\ Idle("app")
    /\ \E has_video \in BOOLEAN, filename \in AP_Filenames, saveOk \in BOOLEAN,
          importOk \in BOOLEAN, libs \in AP_Libs, video \in Videos :
          \E faces \in FacesOf(libs), llm \in LlmOf(libs, "none") :
          LET base == [has_video |-> has_video, filename |-> filename, saveOk |-> saveOk,
                       importOk |-> importOk, libs |-> libs, video |-> video,
                       openai_api_key |-> "none",
                       out |-> [faces |-> faces,
                                stt |-> CHOOSE o \in SttOf(libs, video) : TRUE,
                                ser |-> CHOOSE o \in SerOf(libs, video) : TRUE,
                                llm |-> llm],
                       sim |-> CHOOSE s \in Simulations : TRUE]
          IN  \E sim \in SimulationsOf(base) :
                 Answer([base EXCEPT !.sim = sim],
                        analyze_sentiment([base EXCEPT !.sim = sim]))

NextApp == AnalyzeSentiment \/ Finish

SpecApp == InitApp /\ [][NextApp]_vars

\* The upload passes the three checks of the handler.
ChecksPass ==
    req.has_video /\ req.filename # << >> /\ AP_HasVideoExtension(req.filename)

\* Importing processor or running process_file raised.
ProcessorRaised ==
    \/ ~req.importOk
    \/ process_file(req.libs, req.video, req.openai_api_key, req.out).status = "raised"

\* C13: POST /analyze of app.py answers 400 exactly when the part 'video' is
\* missing, its filename is empty, or its extension is none of .mp4, .webm,
\* .avi, .mov; and for an upload that passes these checks and is saved, an
\* exception raised while importing or running processor.process_file leads
\* to the simulated process_video result with status 200, never to a 500.
C13_ProcessorFallback ==
    Answered("app")
        => /\ (resp.status = 400) <=> ~ChecksPass
           /\ (ChecksPass /\ req.saveOk /\ ProcessorRaised)
                 => /\ resp.status = 200
                    /\ resp.body = SA_process_video(req.sim)

\* A video that moviepy cannot open, on a host with every package: the
\* facial stage of process_file raises and the simulated result is answered.
C13_Witness ==
    /\ Answered("app")
    /\ ChecksPass /\ req.saveOk /\ req.importOk
    /\ req.video = "unreadable" /\ req.libs.DeepFace
    /\ resp.status = 200
    /\ resp.body = SA_process_video(req.sim)
    /\ "process_file" \in Range(log)

(***************************************************************************)
(* backend/gemini_integrator.py: generate_recommendations (SpecGemini)     *)
(*                                                                         *)
(* A line of Gemini's text is described by what the parser asks of it:     *)
(* whether it holds "recommendation", a colon, "advice" or "guidance", and *)
(* how long it is once its list marker is stripped.                        *)
(***************************************************************************)

GM_RiskLevels == {"LOW", "MEDIUM", "HIGH", "CRITICAL", "UNKNOWN"}

\* _get_fallback_recommendations: three per level, MEDIUM's for another level.
GM_get_fallback_recommendations(risk_level) ==
    CASE risk_level = "LOW" ->
            <<"LOW: daily mindfulness", "LOW: sleep schedule", "LOW: relationships">>
      [] risk_level = "HIGH" ->
            <<"HIGH: contact a professional", "HIGH: safety plan", "HIGH: not isolated">>
      [] risk_level = "CRITICAL" ->
            <<"CRITICAL: crisis helpline", "CRITICAL: do not remain alone",
              "CRITICAL: remove means">>
      [] OTHER ->
            <<"MEDIUM: consultation", "MEDIUM: stress management", "MEDIUM: support groups">>

\* _get_fallback_advice
GM_get_fallback_advice(risk_level) ==
    CASE risk_level = "LOW" -> <<"LOW advice">>
      [] risk_level = "HIGH" -> <<"HIGH advice">>
      [] risk_level = "CRITICAL" -> <<"CRITICAL advice">>
      [] OTHER -> <<"MEDIUM advice">>

GM_get_fallback_response(risk_level) ==
    [recommendations |-> GM_get_fallback_recommendations(risk_level),
     personalized_advice |-> GM_get_fallback_advice(risk_level),
     source |-> "Fallback System"]

\* The first n elements of a list: s[:n].
Take(s, n) == SubSeq(s, 1, Min(n, Len(s)))

GM_Line(text, recommendation, colon, advice, length) ==
    [text |-> text, recommendation |-> recommendation, colon |-> colon, advice |-> advice,
     length |-> length]

RECURSIVE GM_ParseLines(_, _, _)
\* The loop of _parse_text_response over the lines from position i on.
GM_ParseLines(lines, i, acc) ==
    IF i > Len(lines) THEN acc
    ELSE LET line == lines[i]
         IN  IF line.recommendation /\ ~line.colon
             THEN GM_ParseLines(lines, i + 1,
                      [acc EXCEPT !.in_recommendations = TRUE, !.in_advice = FALSE])
             ELSE IF line.advice
             THEN GM_ParseLines(lines, i + 1,
                      [acc EXCEPT !.in_recommendations = FALSE, !.in_advice = TRUE])
             ELSE GM_ParseLines(lines, i + 1,
                      [acc EXCEPT
                         !.recommendations =
                             IF /\ acc.in_recommendations /\ line.length > 0
                                /\ Len(acc.recommendations) < 3 /\ line.length > 15
                             THEN Append(@, line.text) ELSE @,
                         !.personalized_advice =
                             IF acc.in_advice /\ line.length > 0
                             THEN Append(@, line.text) ELSE @])

\* _parse_text_response
GM_parse_text_response(lines, risk_level) ==
    LET parsed == GM_ParseLines(lines, 1,
                      [recommendations |-> << >>, personalized_advice |-> << >>,
                       in_recommendations |-> FALSE, in_advice |-> FALSE])
        recommendations == IF parsed.recommendations = << >>
                           THEN GM_get_fallback_recommendations(risk_level)
                           ELSE parsed.recommendations
    IN  [recommendations |-> Take(recommendations, 3),
         personalized_advice |-> IF parsed.personalized_advice = << >>
                                 THEN GM_get_fallback_advice(risk_level)
                                 ELSE parsed.personalized_advice,
         source |-> "Google Gemini AI (parsed)"]

GM_Items == <<"walk daily", "call a friend", "keep a journal", "see a counsellor",
              "sleep eight hours">>

\* A member of a JSON object: a list or a string, null, or missing.
GM_Value(kind, items) == [kind |-> kind, items |-> items]

\* The JSON documents Gemini answers with: objects with zero to five
\* recommendations, an object without the keys, an object whose
\* recommendations are null, and an array.
GM_JsonValues ==
    { [type |-> "object", recommendations |-> GM_Value("list", Take(GM_Items, n)),
       personalized_advice |-> GM_Value("string", <<"advice from Gemini">>)] :
         n \in {0, 1, 3, 4, 5} }
      \cup { [type |-> "object", recommendations |-> GM_Value("missing", << >>),
              personalized_advice |-> GM_Value("missing", << >>)],
             [type |-> "object", recommendations |-> GM_Value("null", << >>),
              personalized_advice |-> GM_Value("string", <<"advice from Gemini">>)],
             [type |-> "array", recommendations |-> GM_Value("missing", << >>),
              personalized_advice |-> GM_Value("missing", << >>)] }

\* Texts that json.loads rejects.
GM_Texts ==
    { << GM_Line("Recommendations", TRUE, FALSE, FALSE, 15),
         GM_Line("1. Take a walk every morning", FALSE, FALSE, FALSE, 25),
         GM_Line("2. Rest", FALSE, FALSE, FALSE, 4),
         GM_Line("", FALSE, FALSE, FALSE, 0),
         GM_Line("3. Talk to a friend you trust", FALSE, FALSE, FALSE, 26),
         GM_Line("4. Write down three good things", FALSE, FALSE, FALSE, 28),
         GM_Line("5. Keep a regular sleep schedule", FALSE, FALSE, FALSE, 29),
         GM_Line("Personalized guidance", FALSE, FALSE, TRUE, 21),
         GM_Line("You are doing better than you think.", FALSE, FALSE, FALSE, 36) >>,
      << GM_Line("Top 3 Recommendations:", TRUE, TRUE, FALSE, 22),
         GM_Line("1. Take a walk every morning", FALSE, FALSE, FALSE, 25) >>,
      << GM_Line("Recommendations", TRUE, FALSE, FALSE, 15),
         GM_Line("- Seek professional advice early", FALSE, FALSE, TRUE, 30),
         GM_Line("- Take a walk every morning", FALSE, FALSE, FALSE, 25) >>,
      << GM_Line("I am sorry, I cannot help with that.", FALSE, FALSE, FALSE, 36) >> }

\* What model.generate_content does: it raises, or answers a JSON document,
\* bare or inside a code fence, or a text that is no JSON.
GM_Replies ==
    { [kind |-> "raises", fence |-> "none", json |-> None, lines |-> << >>] }
      \cup [kind : {"json"}, fence : {"none", "json_fence", "plain_fence"}, json : GM_JsonValues,
            lines : {<< >>}]
      \cup [kind : {"text"}, fence : {"none"}, json : {None}, lines : GM_Texts]

\* The try block of generate_recommendations: its value, or the exception
\* that leaves it.
GM_try_block(risk_level, contextOk, reply) ==
    IF ~contextOk THEN [raised |-> TRUE, value |-> None]
    ELSE IF reply.kind = "raises" THEN [raised |-> TRUE, value |-> None]
    ELSE IF reply.kind = "text"
    THEN [raised |-> FALSE, value |-> GM_parse_text_response(reply.lines, risk_level)]
    ELSE IF reply.json.type # "object" THEN [raised |-> TRUE, value |-> None]
    ELSE IF reply.json.recommendations.kind = "null" THEN [raised |-> TRUE, value |-> None]
    ELSE [raised |-> FALSE,
          value |-> [recommendations |->
                         IF reply.json.recommendations.kind = "missing" THEN << >>
                         ELSE Take(reply.json.recommendations.items, 3),
                     personalized_advice |->
                         IF reply.json.personalized_advice.kind = "missing" THEN << >>
                         ELSE reply.json.personalized_advice.items,
                     source |-> "Google Gemini AI"]]

\* generate_recommendations without its outer except clause.
generate_recommendations_uncaught(initialized, risk_level, contextOk, reply) ==
    LET block == GM_try_block(risk_level, contextOk, reply)
    IN  IF ~initialized
        THEN [status |-> "returned", body |-> GM_get_fallback_response(risk_level),
              log |-> << >>]
        ELSE IF block.raised
        THEN [status |-> "raised", body |-> None, log |-> <<"generate_content">>]
        ELSE [status |-> "returned", body |-> block.value, log |-> <<"generate_content">>]

\* GeminiIntegrator.generate_recommendations
generate_recommendations(initialized, risk_level, contextOk, reply) ==
    LET block == GM_try_block(risk_level, contextOk, reply)
    IN  IF ~initialized
        THEN [status |-> "returned", body |-> GM_get_fallback_response(risk_level),
              log |-> << >>]
        ELSE IF block.raised
        THEN [status |-> "returned", body |-> GM_get_fallback_response(risk_level),
              log |-> <<"generate_content">>]
        ELSE [status |-> "returned", body |-> block.value, log |-> <<"generate_content">>]

InitGemini ==
    /\ server \in [svc : {"gemini"}, analyzer : {"uninit", "ready"}]
    /\ phase = "idle"
    /\ req = None
    /\ resp = None
    /\ log = << >>
    /\ temp_dir = {}
    /\ background = << >>

GenerateRecommendations ==
    /\ Idle("gemini")
    /\ \E risk_level \in GM_RiskLevels, contextOk \in BOOLEAN, reply \in GM_Replies :
          Answer([risk_level |-> risk_level, contextOk |-> contextOk, reply |-> reply],
                 generate_recommendations(server.analyzer = "ready", risk_level, contextOk,
                                          reply))

NextGemini == GenerateRecommendations \/ Finish

SpecGemini == InitGemini /\ [][NextGemini]_vars

\* C14: generate_recommendations never raises and always returns a dict with
\* the keys recommendations and personalized_advice that holds at most 3
\* recommendations; when the integrator is not initialized or the Gemini call
\* fails, it is the static fallback for the risk level, source Fallback System.
C14_AlwaysRecommendations ==
    Answered("gemini")
        => /\ resp.status = "returned"
           /\ {"recommendations", "personalized_advice"} \subseteq DOMAIN resp.body
           /\ Len(resp.body.recommendations) <= 3
           /\ (server.analyzer = "uninit" \/ req.reply.kind = "raises")
                 => /\ resp.body = GM_get_fallback_response(req.risk_level)
                    /\ resp.body.source = "Fallback System"

\* An initialized integrator whose Gemini call raises answers the fallback of
\* a CRITICAL risk; and a JSON answer with five recommendations is cut to 3.
C14_Witness ==
    /\ Answered("gemini") /\ server.analyzer = "ready" /\ req.contextOk
    /\ \/ /\ req.reply.kind = "raises" /\ req.risk_level = "CRITICAL"
          /\ resp.body.source = "Fallback System"
          /\ resp.body.recommendations[1] = "CRITICAL: crisis helpline"
       \/ /\ req.reply.kind = "json" /\ req.reply.json.type = "object"
          /\ Len(req.reply.json.recommendations.items) = 5
          /\ Len(resp.body.recommendations) = 3
          /\ resp.body.source = "Google Gemini AI"

(***************************************************************************)
(* Claims about map_to_risk_level (SpecRisk)                               *)
(***************************************************************************)

\* C15: map_to_risk_level maps neutral and surprise, and happy, joy, calm and
\* excited, to the risk level LOW for every confidence in [0, 1], as its
\* emotion-to-risk table states.
C15_TableLevelLow ==
    (/\ Answered("risk")
     /\ Lower(req.emotion) \in {"neutral", "surprise", "happy", "joy", "calm", "excited"})
        => resp.body.fresh.risk_level = "LOW"

\* The base risk of the emotion's group, in hundredths.
C16_Base(emotion) ==
    IF Lower(emotion) \in {"anger", "disgust", "fear", "sadness"} THEN 7000
    ELSE IF Lower(emotion) \in {"frustration", "anxiety", "stress"} THEN 5000
    ELSE IF Lower(emotion) \in {"neutral", "surprise"} THEN 3000
    ELSE IF Lower(emotion) \in {"happy", "joy", "calm", "excited"} THEN 1000
    ELSE 4000

\* CRITICAL exactly for anger, disgust, fear, sadness at confidence <= 0.5,
\* and a score that does not rise with the confidence.
C16_CriticalAndMonotone ==
    /\ (resp.body.fresh.risk_level = "CRITICAL")
          <=> (/\ Lower(req.emotion) \in {"anger", "disgust", "fear", "sadness"}
               /\ req.confidence <= 500)
    /\ req.confidence < 1000
          => map_to_risk_level(req.emotion, req.confidence + 1).risk_score
                <= resp.body.fresh.risk_score

\* C16 as stated: the risk score equals base + (1 - confidence) * 20.
C16_Original ==
    Answered("risk")
        => /\ C16_CriticalAndMonotone
           /\ resp.body.fresh.risk_score = C16_Base(req.emotion) + (1000 - req.confidence) * 2

\* C16 amended: for confidence in [0, 1], map_to_risk_level returns CRITICAL
\* exactly when the emotion is one of anger, disgust, fear, sadness and
\* confidence <= 0.5; its risk score is base + (1 - confidence) * 20, with base
\* 70/50/30/10/40 by emotion group, rounded to one decimal, and never
\* increases when confidence increases.
C16_RoundedScore ==
    Answered("risk")
        => /\ C16_CriticalAndMonotone
           /\ resp.body.fresh.risk_score
                 = RoundTenths(C16_Base(req.emotion) + (1000 - req.confidence) * 2)

\* Fear at confidence 0.501: 79.98 is below the CRITICAL threshold and is
\* returned as 80.0.
C16_Witness ==
    /\ Answered("risk")
    /\ req.emotion = "fear" /\ req.confidence = 501
    /\ resp.body.fresh = [risk_level |-> "HIGH", risk_score |-> 8000]

(***************************************************************************)
(* Claim about the backend's recommendations (SpecAudio)                   *)
(***************************************************************************)

\* C17: the recommendations of the backend's AudioEmotionAnalyzer depend on
\* risk level and emotion: for the primary emotion sad or fearful the list
\* contains "Engage in activities that uplift your mood", and for angry it
\* contains "Practice anger management techniques", at every risk level.
C17_EmotionRecommendation ==
    (Answered("backend") /\ resp.status = 200)
        => /\ resp.body.primary_emotion \in {"sad", "fearful"}
                 => "Engage in activities that uplift your mood"
                        \in Range(resp.body.recommendations)
           /\ resp.body.primary_emotion = "angry"
                 => "Practice anger management techniques"
                        \in Range(resp.body.recommendations)

====
